---- MODULE Spec2Model ----
(***************************************************************************)
(* Model of scripts/configure-keycloak-realms.py: the realm merge          *)
(* (_merge_realm) and the run of main() against the Keycloak Admin API;    *)
(* of main() of scripts/ensure_keycloak_trusted_hosts.py,                  *)
(* scripts/ensure-keycloak-realms.py and scripts/delete-keycloak-realms.py *)
(* against the same server; and of the generation of .env and .env.dev by  *)
(* scripts/generate_dev_secrets.py.                                        *)
(*                                                                         *)
(* JSON documents are functions from field names to values.  A field that  *)
(* is not in a dict is Absent; a field holding JSON null is Null.  String  *)
(* values are TLA+ strings, lists are sequences.  The two managed          *)
(* collections are always sequences: the code reads them with              *)
(* `x.get(k) or []`, so an absent collection and an empty one are the same *)
(* input.                                                                  *)
(***************************************************************************)
EXTENDS Integers, Sequences, FiniteSets, TLC

VARIABLES
    pc,         \* position of main() (or of the stand-alone merge call)
    run,        \* number of the current run of the script
    realm_idx,  \* index into REALM_FILES / the fixture realms of the current loop
    existing,   \* main: result of list_realms
    current,    \* main: result of get_realm_full
    desired,    \* main: json.loads of the realm file
    merged,     \* main: result of _merge_realm
    parent_id,  \* ensure_trusted_hosts: result of get_realm_id
    trusted,    \* ensure_trusted_hosts: the trusted-hosts component found
    user_id,    \* ensure_test_user: id found or created
    files,      \* the import directory: realm name -> file content
    live,       \* the server: realm name -> realm document
    comps,      \* the server: realm name -> trusted-hosts policy component
    users,      \* the server: realm name -> the test user
    net,        \* the docker network as seen by `docker network inspect`
    calls,      \* remote calls issued by the current run, in order
    warnings,   \* warnings printed by the current run
    outside,    \* another actor changed the server during the current run
    prev,       \* the previous run: how it ended, the server it left and, if
                \* it aborted, the server it had found
    start,      \* the server as the current run found it
    discovered, \* results of get_trusted_hosts_for_env in the current run, in order
    args,       \* command line and environment of the script
    secrets_infra, \* generate_dev_secrets.py, main: result of resolve_secrets for .env
    issued      \* generate_dev_secrets.py: secrets drawn from `secrets` so far

vars == <<pc, run, realm_idx, existing, current, desired, merged, parent_id,
          trusted, user_id, files, live, comps, users, net, calls, warnings,
          outside, prev, start, discovered, args, secrets_infra, issued>>

----------------------------------------------------------------------------
(* Bounds of the model *)

\* longest client / flow list drawn as an input of the stand-alone merge
MaxLen == 2

\* number of runs of the script in one behaviour
MaxRuns == 2

----------------------------------------------------------------------------
(* JSON values *)

Absent == "<absent>"
Null == "<null>"

\* dict.get(k): None for a missing key
Get(d, k) == IF d[k] = Absent THEN Null ELSE d[k]

\* Python truthiness of a string-or-None value
Truthy(v) == v \notin {Absent, Null, ""}

\* Python `a or b`
Or(a, b) == IF Truthy(a) THEN a ELSE b

SeqsUpTo(S, n) == UNION {[1..k -> S] : k \in 0..n}

RECURSIVE MapSeq(_, _)
MapSeq(F(_), s) == IF s = <<>> THEN <<>> ELSE <<F(Head(s))>> \o MapSeq(F, Tail(s))

Range(s) == {s[i] : i \in DOMAIN s}

----------------------------------------------------------------------------
(* Program constants *)

\* the realm files listed in the opposite order
REALM_FILES_Reversed == <<"kairos-prod", "kairos-qa", "kairos-dev">>

REALM_FILES == <<"kairos-dev", "kairos-qa", "kairos-prod">>

Realms == Range(REALM_FILES)

\* a test-user loop over every realm
FIXTURE_REALMS_All == <<"kairos-dev", "kairos-qa", "kairos-prod">>

\* the fixture realms of step 3 of main
FIXTURE_REALMS == <<"kairos-dev", "kairos-qa">>

TRUSTED_HOSTS_PROVIDER_ID == "trusted-hosts"

\* the keys of the `for key in (...)` loop of _merge_realm
AllowList ==
    {"realm", "enabled", "registrationAllowed", "loginWithEmailAllowed",
     "duplicateEmailsAllowed", "ssoSessionIdleTimeout", "ssoSessionMaxLifespan",
     "accessCodeLifespan", "accessCodeLifespanUserAction",
     "accessCodeLifespanLogin", "groups"}

\* the two collections _merge_realm rebuilds
Collections == {"clients", "authenticationFlows"}

\* natural key field of the members of each collection
KeyField(coll) == IF coll = "clients" THEN "clientId" ELSE "alias"

\* fields of a realm document in the model: id, the allow-list, the two
\* collections, and two fields the merge has no rule for
UnmanagedFields == {"displayName", "loginTheme"}

RealmFields == {"id"} \cup AllowList \cup Collections \cup UnmanagedFields

\* fields of a client / flow in the model
MemberFields == {"clientId", "alias", "id", "description"}

EmptyRealm == [k \in RealmFields |-> IF k \in Collections THEN <<>> ELSE Absent]

EmptyMember == [k \in MemberFields |-> Absent]

Member(kf, nk, id, descr) ==
    [EmptyMember EXCEPT ![kf] = nk, !["id"] = id, !["description"] = descr]

----------------------------------------------------------------------------
(* _merge_realm *)

\* index of the first member of s whose field kf is nk (0 if none): next(...)
RECURSIVE FirstWith(_, _, _, _)
FirstWith(s, kf, nk, i) ==
    IF i > Len(s) THEN 0
    ELSE IF Get(s[i], kf) = nk THEN i
    ELSE FirstWith(s, kf, nk, i + 1)

\* a merge that takes the desired member as it is, without the current id
NewMemberUnstamped(current_members, d, kf) == d

\* a merge that fills the fields the desired member lacks from the current one
NewMemberDeep(current_members, d, kf) ==
    LET e == FirstWith(current_members, kf, Get(d, kf), 1)
    IN  IF e = 0 THEN d
        ELSE [f \in MemberFields |->
                IF f = "id" /\ Get(current_members[e], "id") # Null
                THEN current_members[e]["id"]
                ELSE IF d[f] # Absent THEN d[f] ELSE current_members[e][f]]

\* the loop body over one desired member: copy it, stamp the id of the
\* first current member with the same natural key, if that id is not None
NewMember(current_members, d, kf) ==
    LET e == FirstWith(current_members, kf, Get(d, kf), 1)
    IN  IF e # 0 /\ Get(current_members[e], "id") # Null
        THEN [d EXCEPT !["id"] = current_members[e]["id"]]
        ELSE d

\* a merge that appends the desired members to all current members
MergeMembersAppend(current_members, desired_members, kf) ==
    LET HasKey(d) == Truthy(Get(d, kf))
        Stamp(d) == NewMember(current_members, d, kf)
    IN  current_members \o MapSeq(Stamp, SelectSeq(desired_members, HasKey))

\* one collection block of _merge_realm (the clients block and the flows
\* block are the same code over clientId and alias)
MergeMembers(current_members, desired_members, kf) ==
    LET desired_ids == {Get(d, kf) : d \in {x \in Range(desired_members) : Truthy(Get(x, kf))}}
        NotDesired(c) == Get(c, kf) \notin desired_ids
        HasKey(d) == Truthy(Get(d, kf))
        Stamp(d) == NewMember(current_members, d, kf)
    IN  SelectSeq(current_members, NotDesired)
            \o MapSeq(Stamp, SelectSeq(desired_members, HasKey))

\* an id that the desired document overrides
MergedIdDesiredFirst(cur, des) == Or(Or(Get(des, "id"), Get(cur, "id")), Get(cur, "realm"))

\* merged["id"] = current.get("id") or desired.get("id") or current.get("realm")
MergedId(cur, des) == Or(Or(Get(cur, "id"), Get(des, "id")), Get(cur, "realm"))

\* an allow-list loop that tests `desired.get(key)` instead of `key in desired`
MergedFieldIfTruthy(cur, des, k) == IF Truthy(des[k]) THEN des[k] ELSE cur[k]

\* the allow-list loop: desired overwrites where the key is in desired
MergedField(cur, des, k) == IF des[k] # Absent THEN des[k] ELSE cur[k]

\* a merge that starts from {**current, **desired}
_merge_realm_overlay(cur, des) ==
    [k \in RealmFields |->
        IF k = "id" THEN MergedId(cur, des)
        ELSE IF k \in Collections THEN MergeMembers(cur[k], des[k], KeyField(k))
        ELSE MergedField(cur, des, k)]

_merge_realm(cur, des) ==
    [k \in RealmFields |->
        IF k = "id" THEN MergedId(cur, des)
        ELSE IF k \in AllowList THEN MergedField(cur, des, k)
        ELSE IF k \in Collections THEN MergeMembers(cur[k], des[k], KeyField(k))
        ELSE cur[k]]

----------------------------------------------------------------------------
(* Inputs of the stand-alone merge call *)

\* "no document": a record, so that it compares with documents
NoDoc == [none |-> "document"]

\* before the first run there is no previous run
NoRun == [none |-> "run"]

\* configure-keycloak-realms.py takes no arguments
NoArgs == [none |-> "args"]

\* resolve_secrets has not been called
NoSecrets == [none |-> "secrets"]

\* remote ids the server gave to the members of a fetched collection: one
\* per position, so they are pairwise distinct
RemoteId(i) == "id" \o ToString(i)

\* a fetched member: natural key a or b (or none), with or without an id
CurrentShapes == ({"a", "b"} \X {TRUE, FALSE}) \cup {<<Absent, TRUE>>}

\* the server keeps clientId and alias unique within a realm
DistinctKeys(sh) ==
    \A i, j \in DOMAIN sh : (i # j /\ sh[i][1] # Absent) => sh[i][1] # sh[j][1]

CurrentMembers(kf) ==
    {[i \in DOMAIN sh |->
        Member(kf, sh[i][1], IF sh[i][2] THEN RemoteId(i) ELSE Absent, "cur")]
     : sh \in {x \in SeqsUpTo(CurrentShapes, MaxLen) : DistinctKeys(x)}}

\* a member of the realm file: natural key a or c, declaring an id or not,
\* with or without a description; or a member without natural key
DesiredMemberSet(kf) ==
    {Member(kf, nk, id, descr) :
        nk \in {"a", "c"}, id \in {Absent, "file-id"}, descr \in {Absent, "new"}}
    \cup {Member(kf, Absent, Absent, "new")}

DesiredMembers(kf) == SeqsUpTo(DesiredMemberSet(kf), MaxLen)

\* inputs that vary one collection: any fetched list against any file list
CollectionInputs(cur, des) ==
    \E coll \in Collections :
        \E cm \in CurrentMembers(KeyField(coll)), dm \in DesiredMembers(KeyField(coll)) :
            /\ cur = [EmptyRealm EXCEPT !["realm"] = "kairos-dev", !["id"] = "live-id",
                                        ![coll] = cm]
            /\ des = [EmptyRealm EXCEPT !["realm"] = "kairos-dev", ![coll] = dm]

\* inputs that vary the top-level fields: the id, the realm name, one
\* allow-listed key and one field outside the allow-list
ScalarInputs(cur, des) ==
    \E cid \in {Absent, "", "live-id"}, crealm \in {Absent, "kairos-dev"},
       did \in {Absent, "file-id"}, drealm \in {Absent, "kairos-dev", "renamed"},
       k \in AllowList \ {"realm"}, cv \in {Absent, "cur"}, dv \in {Absent, Null, "new"},
       u \in UnmanagedFields, cu \in {Absent, "cur"}, du \in {Absent, "new"} :
        /\ cur = [EmptyRealm EXCEPT !["id"] = cid, !["realm"] = crealm, ![k] = cv, ![u] = cu]
        /\ des = [EmptyRealm EXCEPT !["id"] = did, !["realm"] = drealm, ![k] = dv, ![u] = du]

----------------------------------------------------------------------------
(* The stand-alone merge call: _merge_realm applied to drawn inputs *)

Idle ==
    /\ run = 0
    /\ realm_idx = 0
    /\ existing = {}
    /\ parent_id = Absent
    /\ trusted = NoDoc
    /\ user_id = Absent
    /\ files = [r \in Realms |-> NoDoc]
    /\ live = [r \in Realms |-> NoDoc]
    /\ comps = [r \in Realms |-> NoDoc]
    /\ users = [r \in Realms |-> NoDoc]
    /\ net = NoDoc
    /\ calls = <<>>
    /\ warnings = <<>>
    /\ outside = FALSE
    /\ prev = NoRun
    /\ start = NoRun
    /\ discovered = <<>>
    /\ args = NoArgs
    /\ secrets_infra = NoSecrets /\ issued = 0

InitMerge ==
    /\ pc = "merge"
    /\ CollectionInputs(current, desired) \/ ScalarInputs(current, desired)
    /\ merged = NoDoc
    /\ Idle

MergeCall ==
    /\ pc = "merge"
    /\ merged' = _merge_realm(current, desired)
    /\ pc' = "merged"
    /\ UNCHANGED <<secrets_infra, issued, args, run, realm_idx, existing, current, desired, parent_id, trusted,
                   user_id, files, live, comps, users, net, calls, warnings,
                   outside, prev, start, discovered>>

NextMerge == MergeCall

SpecMerge == InitMerge /\ [][NextMerge]_vars

\* the merge has produced its output from `current` and `desired`
MergeDone == pc \in {"merged", "update_realm"}

----------------------------------------------------------------------------
(* The server, the import directory and the docker network at the start   *)

\* the realm file is missing / holds text that json.loads rejects
NoFile == [none |-> "file"]
Malformed == [malformed |-> "json"]

TEST_USERNAME == "kairos-tester"
TEST_PASSWORD == "kairos-tester-secret"

\* a realm as the server holds it before the first run: with a server id,
\* two clients and a flow, each with its remote id
LiveFull(r) ==
    [EmptyRealm EXCEPT
        !["id"] = "live-id", !["realm"] = r, !["enabled"] = "false",
        !["displayName"] = "cur",
        !["clients"] = <<Member("clientId", "a", RemoteId(1), "cur"),
                         Member("clientId", "b", RemoteId(2), "cur")>>,
        !["authenticationFlows"] = <<Member("alias", "a", RemoteId(1), "cur")>>]

\* a realm whose representation carries no id
LiveBare(r) ==
    [EmptyRealm EXCEPT !["realm"] = r, !["enabled"] = "true",
        !["clients"] = <<Member("clientId", "b", RemoteId(1), "cur")>>]

\* what the server makes of POST /admin/realms {"realm": r, "enabled": true}
CreatedRealm(r) ==
    [EmptyRealm EXCEPT !["id"] = "created-id", !["realm"] = r, !["enabled"] = "true",
        !["clients"] = <<Member("clientId", "b", RemoteId(1), "cur")>>]

\* a realm file: clients a (no id declared) and c, one flow, an id and a
\* displayName of its own
FilePlain(r) ==
    [EmptyRealm EXCEPT
        !["id"] = "file-id", !["realm"] = r, !["enabled"] = "true",
        !["displayName"] = "new",
        !["clients"] = <<Member("clientId", "a", Absent, "new"),
                         Member("clientId", "c", Absent, Absent)>>,
        !["authenticationFlows"] = <<Member("alias", "a", Absent, "new")>>]

\* a realm file without id, realm name or flows, which lists the client a
\* twice, the first time with an id of its own
FileTwice(r) ==
    [EmptyRealm EXCEPT
        !["enabled"] = "false", !["loginTheme"] = "new",
        !["clients"] = <<Member("clientId", "a", "file-id", "new"),
                         Member("clientId", "a", Absent, Absent)>>]

\* what the import directory holds for realm r: the file of the last realm
\* is missing or plain, the others may also be unparsable or list a key twice
FileContents(r) ==
    IF r = "kairos-prod" THEN {NoFile, FilePlain(r)}
    ELSE {NoFile, Malformed, FilePlain(r), FileTwice(r)}

\* client-registration-policy components: config is a dict (a function on
\* the keys it holds)
TrustedComp ==
    [id |-> "comp-1", providerId |-> TRUSTED_HOSTS_PROVIDER_ID,
     config |-> [k \in {"trusted-hosts", "max-clients"} |->
                    IF k = "trusted-hosts" THEN <<"old-host">> ELSE <<"200">>]]

OtherComp ==
    [id |-> "comp-2", providerId |-> "max-clients",
     config |-> [k \in {"max-clients"} |-> <<"200">>]]

NoUser == [none |-> "user"]

\* the server's view of one realm at the start: no such realm, or the
\* realm document with its policy components and without the test user
ServerStates(r) ==
    IF r = "kairos-prod"
    THEN {[realm |-> LiveFull(r), comps |-> <<OtherComp, TrustedComp>>, user |-> NoUser]}
    ELSE {[realm |-> NoDoc, comps |-> <<>>, user |-> NoUser],
          [realm |-> LiveFull(r), comps |-> <<OtherComp, TrustedComp>>, user |-> NoUser]}

\* docker network inspect: the gateway line (Absent: the call fails or
\* prints nothing) and the containers (inspect_ok FALSE: the call fails)
NetUp ==
    [gateway |-> "172.18.0.1", inspect_ok |-> TRUE,
     containers |-> <<[Name |-> "kairos-app-qa-1", IPv4Address |-> <<"172.18.0.5", "16">>],
                      [Name |-> "kairos-app-prod-1", IPv4Address |-> <<"172.18.0.6", "16">>]>>]

NetDown == [gateway |-> Absent, inspect_ok |-> FALSE, containers |-> <<>>]

RunLocalsIdle ==
    /\ realm_idx = 0
    /\ existing = {}
    /\ current = NoDoc
    /\ desired = NoDoc
    /\ merged = NoDoc
    /\ parent_id = Absent
    /\ trusted = NoDoc
    /\ user_id = Absent
    /\ calls = <<>>
    /\ warnings = <<>>
    /\ outside = FALSE
    /\ args = NoArgs
    /\ secrets_infra = NoSecrets /\ issued = 0

Init ==
    /\ pc = "get_admin_token"
    /\ run = 1
    /\ RunLocalsIdle
    /\ files \in [Realms -> UNION {FileContents(r) : r \in Realms}]
    /\ \A r \in Realms : files[r] \in FileContents(r)
    /\ \E srv \in [Realms -> UNION {ServerStates(r) : r \in Realms}] :
        /\ \A r \in Realms : srv[r] \in ServerStates(r)
        /\ live = [r \in Realms |-> srv[r].realm]
        /\ comps = [r \in Realms |-> srv[r].comps]
        /\ users = [r \in Realms |-> srv[r].user]
    /\ net \in {NetUp}
    /\ prev = NoRun
    /\ start = [live |-> live, comps |-> comps, users |-> users]
    /\ discovered = <<>>

\* a trusted-hosts component that already holds the two settings, with
\* other values
TrustedStrict ==
    [id |-> "comp-3", providerId |-> TRUSTED_HOSTS_PROVIDER_ID,
     config |-> [k \in {"trusted-hosts", "client-uris-must-match",
                        "host-sending-registration-request-must-match"} |->
                    IF k = "trusted-hosts" THEN <<"old-host">>
                    ELSE IF k = "client-uris-must-match" THEN <<"true">> ELSE <<"false">>]]

\* a component that has no config key
NoConfig == [none |-> "config"]

\* trusted-hosts components without config, and without id
TrustedNoConfig ==
    [id |-> "comp-4", providerId |-> TRUSTED_HOSTS_PROVIDER_ID, config |-> NoConfig]

TrustedNoId ==
    [id |-> Absent, providerId |-> TRUSTED_HOSTS_PROVIDER_ID,
     config |-> [k \in {"trusted-hosts"} |-> <<"old-host">>]]

\* the client-registration-policy components of realm r at the start, for
\* the runs that exercise the policy step
PolicyComps(r) ==
    CASE r = "kairos-dev" -> {<<OtherComp, TrustedComp>>, <<OtherComp>>, <<TrustedNoConfig>>}
      [] r = "kairos-qa" -> {<<OtherComp, TrustedComp>>, <<>>, <<TrustedNoId>>}
      [] OTHER -> {<<TrustedStrict, TrustedComp>>, <<OtherComp>>}

\* the start of the runs that exercise the policy step: every realm but
\* possibly the first exists, only the first has a realm file, and the
\* docker network answers or not
InitPolicy ==
    /\ pc = "get_admin_token"
    /\ run = 1
    /\ RunLocalsIdle
    /\ \E f \in {NoFile, FilePlain("kairos-dev")} :
        files = [r \in Realms |-> IF r = "kairos-dev" THEN f ELSE NoFile]
    /\ \E cs \in [Realms -> UNION {PolicyComps(r) : r \in Realms}] :
        /\ \A r \in Realms : cs[r] \in PolicyComps(r)
        /\ \E first \in {NoDoc, LiveFull("kairos-dev")} :
            /\ first = NoDoc => files["kairos-dev"] # NoFile
            /\ live = [r \in Realms |-> IF r = "kairos-dev" THEN first ELSE LiveFull(r)]
            /\ comps = [r \in Realms |->
                            IF r = "kairos-dev" /\ first = NoDoc THEN <<>> ELSE cs[r]]
    /\ users = [r \in Realms |-> NoUser]
    /\ net \in {NetUp, NetDown}
    /\ prev = NoRun
    /\ start = [live |-> live, comps |-> comps, users |-> users]
    /\ discovered = <<>>

----------------------------------------------------------------------------
(* main, step 1: the realms *)

Call(op, realm, status) == [op |-> op, realm |-> realm, status |-> status]

\* HTTP answers: "ok" a 2xx, "conflict" a 409, "error" any other HTTPError
Logged(op, realm, status) == calls' = Append(calls, Call(op, realm, status))

\* sys.exit(message), or an uncaught exception: the process ends
Abort == pc' = "aborted"

RealmName == REALM_FILES[realm_idx]

\* a token check that tests the HTTP status alone
TokenRejectedHttpOnly(resp) == resp = "error"

\* get_admin_token exits on an HTTPError and on a body without access_token
TokenRejected(resp) == resp \in {"error", "no_access_token"}

\* get_admin_token: POST to the token endpoint of the master realm
get_admin_token ==
    /\ pc = "get_admin_token"
    /\ \E resp \in {"ok", "error", "no_access_token"} :
        /\ Logged("token", "master", resp)
        /\ IF TokenRejected(resp) THEN Abort ELSE pc' = "list_realms"
    /\ UNCHANGED <<secrets_infra, issued, args, run, realm_idx, existing, current, desired, merged, parent_id,
                   trusted, user_id, files, live, comps, users, net, warnings,
                   outside, prev, start, discovered>>

\* list_realms: GET /admin/realms, the names of the realms the server holds
list_realms ==
    /\ pc = "list_realms"
    /\ \E resp \in {"ok", "error"} :
        /\ Logged("list", "*", resp)
        /\ IF resp = "ok"
           THEN /\ existing' = {live[r]["realm"] : r \in {x \in Realms : live[x] # NoDoc}}
                /\ realm_idx' = 1
                /\ pc' = "realm_loop"
           ELSE /\ Abort
                /\ UNCHANGED <<existing, realm_idx>>
    /\ UNCHANGED <<secrets_infra, issued, args, run, current, desired, merged, parent_id, trusted, user_id, files,
                   live, comps, users, net, warnings, outside, prev, start, discovered>>

\* a loop that ends at the first realm whose file is missing (`break`)
realm_loop_Break ==
    /\ pc = "realm_loop"
    /\ IF realm_idx > Len(REALM_FILES)
       THEN /\ pc' = "trusted_loop"
            /\ realm_idx' = 1
            /\ UNCHANGED warnings
       ELSE IF files[RealmName] = NoFile
       THEN /\ warnings' = Append(warnings, <<"realm file not found", RealmName>>)
            /\ realm_idx' = 1
            /\ pc' = "trusted_loop"
       ELSE /\ pc' = IF RealmName \notin existing
                     THEN "create_realm_minimal" ELSE "get_realm_full"
            /\ UNCHANGED <<realm_idx, warnings>>
    /\ UNCHANGED <<secrets_infra, issued, args, run, existing, current, desired, merged, parent_id, trusted,
                   user_id, files, live, comps, users, net, calls, outside, prev,
                   start, discovered>>

\* head of `for realm_name, filename in REALM_FILES`: the is_file test and
\* the `realm_name not in existing` test
realm_loop ==
    /\ pc = "realm_loop"
    /\ IF realm_idx > Len(REALM_FILES)
       THEN /\ pc' = "trusted_loop"
            /\ realm_idx' = 1
            /\ UNCHANGED warnings
       ELSE IF files[RealmName] = NoFile
       THEN /\ warnings' = Append(warnings, <<"realm file not found", RealmName>>)
            /\ realm_idx' = realm_idx + 1
            /\ pc' = "realm_loop"
       ELSE /\ pc' = IF RealmName \notin existing
                     THEN "create_realm_minimal" ELSE "get_realm_full"
            /\ UNCHANGED <<realm_idx, warnings>>
    /\ UNCHANGED <<secrets_infra, issued, args, run, existing, current, desired, merged, parent_id, trusted,
                   user_id, files, live, comps, users, net, calls, outside, prev, start, discovered>>

\* the server's answer to a create of realm r: 409 if it holds r
CreateAnswers(r) == IF live[r] # NoDoc THEN {"conflict", "error"} ELSE {"ok", "error"}

\* a create that exits on every HTTPError, 409 included
CreateFatalOn409(resp) == resp # "ok"

\* create_realm_minimal exits on an HTTPError other than 409
CreateFatal(resp) == resp \notin {"ok", "conflict"}

\* a create that posts the realm file
CreatePayload_Desired(realm_name) == files[realm_name]

\* payload of create_realm_minimal: {"realm": realm_name, "enabled": True}
CreatePayload(realm_name) ==
    [k \in {"realm", "enabled"} |-> IF k = "realm" THEN realm_name ELSE "true"]

\* the realm the server makes of a create payload: the fields the payload
\* gives, defaults (an id, a built-in client) for the others
ServerCreate(payload) ==
    LET defaults == [EmptyRealm EXCEPT
                        !["id"] = "created-id",
                        !["clients"] = <<Member("clientId", "b", RemoteId(1), "cur")>>]
    IN  [k \in RealmFields |->
            IF k \notin DOMAIN payload THEN defaults[k]
            ELSE IF k \in Collections
            THEN IF payload[k] = <<>> THEN defaults[k] ELSE payload[k]
            ELSE IF payload[k] = Absent THEN defaults[k] ELSE payload[k]]

\* create_realm_minimal: POST {"realm": name, "enabled": true}; 409 returns
\* False, any other HTTPError exits
create_realm_minimal ==
    /\ pc = "create_realm_minimal"
    /\ \E resp \in CreateAnswers(RealmName) :
        /\ Logged("create", RealmName, resp)
        /\ IF resp = "ok"
           THEN /\ live' = [live EXCEPT ![RealmName] = ServerCreate(CreatePayload(RealmName))]
                /\ comps' = [comps EXCEPT ![RealmName] = <<TrustedComp>>]
                /\ users' = [users EXCEPT ![RealmName] = NoUser]
           ELSE UNCHANGED <<live, comps, users>>
        /\ IF CreateFatal(resp) THEN Abort ELSE pc' = "get_realm_full"
    /\ UNCHANGED <<secrets_infra, issued, args, run, realm_idx, existing, current, desired, merged, parent_id,
                   trusted, user_id, files, net, warnings, outside, prev, start, discovered>>

\* another actor creates the realm between the listing and the create call
OtherActorCreatesRealm ==
    /\ pc = "create_realm_minimal"
    /\ live[RealmName] = NoDoc
    /\ live' = [live EXCEPT ![RealmName] = CreatedRealm(RealmName)]
    /\ comps' = [comps EXCEPT ![RealmName] = <<TrustedComp>>]
    /\ outside' = TRUE
    /\ UNCHANGED <<secrets_infra, issued, args, pc, run, realm_idx, existing, current, desired, merged, parent_id,
                   trusted, user_id, files, users, net, calls, warnings, prev, start, discovered>>

\* get_realm_full: GET /admin/realms/{name}; any HTTPError exits
get_realm_full ==
    /\ pc = "get_realm_full"
    /\ \E resp \in (IF live[RealmName] = NoDoc THEN {"error"} ELSE {"ok", "error"}) :
        /\ Logged("get", RealmName, resp)
        /\ IF resp = "ok"
           THEN /\ current' = live[RealmName]
                /\ pc' = "load_desired"
           ELSE /\ Abort
                /\ UNCHANGED current
    /\ UNCHANGED <<secrets_infra, issued, args, run, realm_idx, existing, desired, merged, parent_id, trusted,
                   user_id, files, live, comps, users, net, warnings, outside, prev, start, discovered>>

\* a converge step that skips the PUT when the merge changes nothing
load_desired_SkipUnchanged ==
    /\ pc = "load_desired"
    /\ IF files[RealmName] = Malformed
       THEN /\ Abort
            /\ UNCHANGED <<desired, merged, realm_idx>>
       ELSE /\ desired' = files[RealmName]
            /\ merged' = _merge_realm(current, files[RealmName])
            /\ IF merged' = current
               THEN pc' = "realm_loop" /\ realm_idx' = realm_idx + 1
               ELSE pc' = "update_realm" /\ UNCHANGED realm_idx
    /\ UNCHANGED <<secrets_infra, issued, args, run, existing, current, parent_id, trusted, user_id,
                   files, live, comps, users, net, calls, warnings, outside, prev, start, discovered>>

\* desired = json.loads(path.read_text()); merged = _merge_realm(current, desired)
load_desired ==
    /\ pc = "load_desired"
    /\ IF files[RealmName] = Malformed
       THEN /\ Abort
            /\ UNCHANGED <<desired, merged>>
       ELSE /\ desired' = files[RealmName]
            /\ merged' = _merge_realm(current, files[RealmName])
            /\ pc' = "update_realm"
    /\ UNCHANGED <<secrets_infra, issued, args, run, realm_idx, existing, current, parent_id, trusted, user_id,
                   files, live, comps, users, net, calls, warnings, outside, prev, start, discovered>>

\* an update that issues the PUT again after an HTTPError
update_realm_Retry ==
    /\ pc = "update_realm"
    /\ \E resp \in {"ok", "error"} :
        /\ Logged("put", RealmName, resp)
        /\ IF resp = "ok"
           THEN /\ live' = [live EXCEPT ![RealmName] = merged]
                /\ realm_idx' = realm_idx + 1
                /\ pc' = "realm_loop"
           ELSE /\ Len(calls) < 8
                /\ UNCHANGED <<pc, live, realm_idx>>
    /\ UNCHANGED <<secrets_infra, issued, args, run, existing, current, desired, merged, parent_id, trusted,
                   user_id, files, comps, users, net, warnings, outside, prev,
                   start, discovered>>

\* an update that, on an HTTPError, puts every realm back as the run found it
update_realm_Rollback ==
    /\ pc = "update_realm"
    /\ \E resp \in {"ok", "error"} :
        /\ Logged("put", RealmName, resp)
        /\ IF resp = "ok"
           THEN /\ live' = [live EXCEPT ![RealmName] = merged]
                /\ realm_idx' = realm_idx + 1
                /\ pc' = "realm_loop"
           ELSE /\ Abort
                /\ live' = start.live
                /\ UNCHANGED realm_idx
    /\ UNCHANGED <<secrets_infra, issued, args, run, existing, current, desired, merged, parent_id, trusted,
                   user_id, files, comps, users, net, warnings, outside, prev,
                   start, discovered>>

\* update_realm: PUT /admin/realms/{name} with the merged document, which
\* the server takes as the realm's new representation
update_realm ==
    /\ pc = "update_realm"
    /\ \E resp \in {"ok", "error"} :
        /\ Logged("put", RealmName, resp)
        /\ IF resp = "ok"
           THEN /\ live' = [live EXCEPT ![RealmName] = merged]
                /\ realm_idx' = realm_idx + 1
                /\ pc' = "realm_loop"
           ELSE /\ Abort
                /\ UNCHANGED <<live, realm_idx>>
    /\ UNCHANGED <<secrets_infra, issued, args, run, existing, current, desired, merged, parent_id, trusted,
                   user_id, files, comps, users, net, warnings, outside, prev, start, discovered>>

----------------------------------------------------------------------------
(* main, step 2: trusted hosts *)

\* strings of the model that match ^\d{1,3}\.\d{1,3}\.\d{1,3}\.\d{1,3}$
DottedQuads == {"172.18.0.1", "172.18.0.5", "172.18.0.6"}

\* `service_name in name` for the container names of the model
NameContains(name, service_name) ==
    \/ name = service_name
    \/ name = "kairos-" \o service_name \o "-1"

\* a gateway lookup that takes any output of the docker call
_docker_network_gateway_NoPattern ==
    IF ~Truthy(net.gateway) THEN Null ELSE net.gateway

\* _docker_network_gateway: the gateway line if it is a dotted quad, else None
_docker_network_gateway ==
    IF ~Truthy(net.gateway) \/ net.gateway \notin DottedQuads THEN Null ELSE net.gateway

\* _docker_container_ip_on_network: the address (text before "/") of the
\* first container whose name contains service_name and whose address is a
\* dotted quad
RECURSIVE FirstContainerIp(_, _, _)
FirstContainerIp(containers, service_name, i) ==
    IF i > Len(containers) THEN Null
    ELSE LET info == containers[i]
             addr == info.IPv4Address[1]
         IN  IF NameContains(info.Name, service_name) /\ Truthy(addr) /\ addr \in DottedQuads
             THEN addr
             ELSE FirstContainerIp(containers, service_name, i + 1)

_docker_container_ip_on_network(service_name) ==
    IF ~net.inspect_ok THEN Null ELSE FirstContainerIp(net.containers, service_name, 1)

Optional(v) == IF Truthy(v) THEN <<v>> ELSE <<>>

get_trusted_hosts_for_env(env) ==
    <<"127.0.0.1", "localhost">> \o Optional(_docker_network_gateway)
        \o (IF env \in {"qa", "prod"}
            THEN Optional(_docker_container_ip_on_network("app-" \o env)) \o <<"app-" \o env>>
            ELSE <<>>)

\* a warning printed for every environment that lacks the gateway
TrustedHostsWarningsAll(env) ==
    IF ~Truthy(_docker_network_gateway)
    THEN <<<<"gateway not found", env>>>> ELSE <<>>

\* the warning get_trusted_hosts_for_env prints: dev without a gateway
TrustedHostsWarnings(env) ==
    IF env = "dev" /\ ~Truthy(_docker_network_gateway)
    THEN <<<<"gateway not found", env>>>> ELSE <<>>

\* realm_name.replace("kairos-", "")
EnvKey(realm_name) ==
    CASE realm_name = "kairos-dev" -> "dev"
      [] realm_name = "kairos-qa" -> "qa"
      [] realm_name = "kairos-prod" -> "prod"
      [] OTHER -> realm_name

\* head of `for realm_name, _ in REALM_FILES` of step 2
trusted_loop ==
    /\ pc = "trusted_loop"
    /\ IF realm_idx > Len(REALM_FILES)
       THEN /\ pc' = "fixture_loop"
            /\ realm_idx' = 1
       ELSE /\ pc' = "get_realm_id"
            /\ UNCHANGED realm_idx
    /\ UNCHANGED <<secrets_infra, issued, args, run, existing, current, desired, merged, parent_id, trusted,
                   user_id, files, live, comps, users, net, calls, warnings,
                   outside, prev, start, discovered>>

\* get_realm_id: GET /admin/realms/{realm}; data.get("id") or realm
get_realm_id ==
    /\ pc = "get_realm_id"
    /\ \E resp \in (IF live[RealmName] = NoDoc THEN {"error"} ELSE {"ok", "error"}) :
        /\ Logged("get_id", RealmName, resp)
        /\ IF resp = "ok"
           THEN /\ parent_id' = Or(Get(live[RealmName], "id"), RealmName)
                /\ pc' = "get_components"
           ELSE /\ Abort
                /\ UNCHANGED parent_id
    /\ UNCHANGED <<secrets_infra, issued, args, run, realm_idx, existing, current, desired, merged, trusted,
                   user_id, files, live, comps, users, net, warnings, outside, prev, start, discovered>>

\* next(c for c in components if providerId == trusted-hosts), else NoDoc
RECURSIVE FirstTrusted(_, _)
FirstTrusted(components, i) ==
    IF i > Len(components) THEN NoDoc
    ELSE IF components[i].providerId = TRUSTED_HOSTS_PROVIDER_ID THEN components[i]
    ELSE FirstTrusted(components, i + 1)

\* a search that ends the run when the trusted-hosts component is missing
get_components_MissingFatal ==
    /\ pc = "get_components"
    /\ \E resp \in {"ok", "error"} :
        /\ Logged("get_components", RealmName, resp)
        /\ IF resp = "ok"
           THEN LET found == FirstTrusted(comps[RealmName], 1)
                IN  IF found = NoDoc \/ ~Truthy(found.id)
                    THEN /\ warnings' = Append(warnings, <<"no trusted hosts component", RealmName>>)
                         /\ Abort
                         /\ UNCHANGED <<trusted, realm_idx>>
                    ELSE /\ trusted' = found
                         /\ pc' = "update_component"
                         /\ UNCHANGED <<warnings, realm_idx>>
           ELSE /\ Abort
                /\ UNCHANGED <<trusted, warnings, realm_idx>>
    /\ UNCHANGED <<secrets_infra, issued, args, run, existing, current, desired, merged, parent_id, user_id,
                   files, live, comps, users, net, outside, prev, start, discovered>>

\* a search that leaves the trusted-hosts loop when the component is missing
get_components_SkipRest ==
    /\ pc = "get_components"
    /\ \E resp \in {"ok", "error"} :
        /\ Logged("get_components", RealmName, resp)
        /\ IF resp = "ok"
           THEN LET found == FirstTrusted(comps[RealmName], 1)
                IN  IF found = NoDoc \/ ~Truthy(found.id)
                    THEN /\ warnings' = Append(warnings, <<"no trusted hosts component", RealmName>>)
                         /\ realm_idx' = Len(REALM_FILES) + 1
                         /\ pc' = "trusted_loop"
                         /\ UNCHANGED trusted
                    ELSE /\ trusted' = found
                         /\ pc' = "update_component"
                         /\ UNCHANGED <<warnings, realm_idx>>
           ELSE /\ Abort
                /\ UNCHANGED <<trusted, warnings, realm_idx>>
    /\ UNCHANGED <<secrets_infra, issued, args, run, existing, current, desired, merged, parent_id, user_id,
                   files, live, comps, users, net, outside, prev, start, discovered>>

\* get_components, then the search for the trusted-hosts component: a
\* missing component (or one without id) is a warning and a return
get_components ==
    /\ pc = "get_components"
    /\ \E resp \in {"ok", "error"} :
        /\ Logged("get_components", RealmName, resp)
        /\ IF resp = "ok"
           THEN LET found == FirstTrusted(comps[RealmName], 1)
                IN  IF found = NoDoc \/ ~Truthy(found.id)
                    THEN /\ warnings' = Append(warnings, <<"no trusted hosts component", RealmName>>)
                         /\ realm_idx' = realm_idx + 1
                         /\ pc' = "trusted_loop"
                         /\ UNCHANGED trusted
                    ELSE /\ trusted' = found
                         /\ pc' = "update_component"
                         /\ UNCHANGED <<warnings, realm_idx>>
           ELSE /\ Abort
                /\ UNCHANGED <<trusted, warnings, realm_idx>>
    /\ UNCHANGED <<secrets_infra, issued, args, run, existing, current, desired, merged, parent_id, user_id,
                   files, live, comps, users, net, outside, prev, start, discovered>>

\* trusted.get("config") or {}
ConfigOf(c) == IF c.config = NoConfig THEN [k \in {} |-> <<>>] ELSE c.config

\* a config made of the three keys alone
TrustedConfigOnly(config, trusted_hosts) ==
    [k \in {"host-sending-registration-request-must-match",
            "trusted-hosts", "client-uris-must-match"} |->
        CASE k = "host-sending-registration-request-must-match" -> <<"true">>
          [] k = "trusted-hosts" -> trusted_hosts
          [] OTHER -> <<"false">>]

\* config = dict(trusted.config) with the three keys set
TrustedConfig(config, trusted_hosts) ==
    [k \in DOMAIN config \cup {"host-sending-registration-request-must-match",
                               "trusted-hosts", "client-uris-must-match"} |->
        CASE k = "host-sending-registration-request-must-match" -> <<"true">>
          [] k = "trusted-hosts" -> trusted_hosts
          [] k = "client-uris-must-match" -> <<"false">>
          [] OTHER -> config[k]]

\* get_trusted_hosts_for_env, then update_component: PUT the component with
\* the new config
update_component ==
    /\ pc = "update_component"
    /\ warnings' = warnings \o TrustedHostsWarnings(EnvKey(RealmName))
    /\ discovered' = Append(discovered, [env |-> EnvKey(RealmName),
                                         hosts |-> get_trusted_hosts_for_env(EnvKey(RealmName))])
    /\ \E resp \in {"ok", "error"} :
        /\ Logged("put_component", RealmName, resp)
        /\ IF resp = "ok"
           THEN LET payload == [trusted EXCEPT !.config =
                        TrustedConfig(ConfigOf(trusted), get_trusted_hosts_for_env(EnvKey(RealmName)))]
                IN  /\ comps' = [comps EXCEPT ![RealmName] =
                            [i \in DOMAIN @ |-> IF @[i].id = trusted.id THEN payload ELSE @[i]]]
                    /\ realm_idx' = realm_idx + 1
                    /\ pc' = "trusted_loop"
           ELSE /\ Abort
                /\ UNCHANGED <<comps, realm_idx>>
    /\ UNCHANGED <<secrets_infra, issued, args, run, existing, current, desired, merged, parent_id, trusted,
                   user_id, files, live, users, net, outside, prev, start>>

----------------------------------------------------------------------------
(* The stand-alone call of get_trusted_hosts_for_env on drawn docker output *)

\* what `docker network inspect --format {{...Gateway}}` prints: nothing or
\* a failed call (Absent), an empty line, an address, or other text
GatewayOutputs == {Absent, "", "172.18.0.1", "<no value>"}

\* entries of the .Containers object: a name and an IPv4Address "addr/len",
\* held as the two parts of its split at "/"
ContainerInfos ==
    [Name : {"kairos-app-qa-1", "kairos-app-prod-1", "kairos-db-1"},
     IPv4Address : {<<"172.18.0.5", "16">>, <<"172.18.0.6", "16">>, <<"", "">>,
                    <<"fd00::5", "64">>}]

\* the docker network: the containers call fails (or prints no JSON), or
\* lists up to MaxLen containers
NetStates ==
    {[gateway |-> g, inspect_ok |-> FALSE, containers |-> <<>>] : g \in GatewayOutputs}
    \cup {[gateway |-> g, inspect_ok |-> TRUE, containers |-> cs] :
            g \in GatewayOutputs, cs \in SeqsUpTo(ContainerInfos, MaxLen)}

InitHosts ==
    /\ pc = "hosts"
    /\ run = 0
    /\ realm_idx \in DOMAIN REALM_FILES
    /\ net \in NetStates
    /\ existing = {}
    /\ current = NoDoc /\ desired = NoDoc /\ merged = NoDoc
    /\ parent_id = Absent /\ trusted = NoDoc /\ user_id = Absent
    /\ files = [r \in Realms |-> NoDoc]
    /\ live = [r \in Realms |-> NoDoc]
    /\ comps = [r \in Realms |-> NoDoc]
    /\ users = [r \in Realms |-> NoDoc]
    /\ calls = <<>> /\ warnings = <<>> /\ outside = FALSE
    /\ prev = NoRun /\ start = NoRun
    /\ discovered = <<>>
    /\ args = NoArgs
    /\ secrets_infra = NoSecrets /\ issued = 0

\* trusted_hosts = get_trusted_hosts_for_env(env), with the warning it prints
HostsCall ==
    /\ pc = "hosts"
    /\ discovered' = Append(discovered, [env |-> EnvKey(RealmName),
                                         hosts |-> get_trusted_hosts_for_env(EnvKey(RealmName))])
    /\ warnings' = warnings \o TrustedHostsWarnings(EnvKey(RealmName))
    /\ pc' = "hosts_done"
    /\ UNCHANGED <<secrets_infra, issued, args, run, realm_idx, existing, current, desired, merged, parent_id,
                   trusted, user_id, files, live, comps, users, net, calls, outside,
                   prev, start>>

NextHosts == HostsCall

SpecHosts == InitHosts /\ [][NextHosts]_vars

----------------------------------------------------------------------------
(* main, step 3: the test user *)

FixtureRealm == FIXTURE_REALMS[realm_idx]

\* head of `for realm_name in ("kairos-dev", "kairos-qa")`, and the return 0
fixture_loop ==
    /\ pc = "fixture_loop"
    /\ pc' = IF realm_idx > Len(FIXTURE_REALMS) THEN "done" ELSE "get_user_id"
    /\ UNCHANGED <<secrets_infra, issued, args, run, realm_idx, existing, current, desired, merged, parent_id,
                   trusted, user_id, files, live, comps, users, net, calls,
                   warnings, outside, prev, start, discovered>>

\* a lookup that never finds the user
get_user_id_NeverFinds ==
    /\ pc = "get_user_id"
    /\ \E resp \in (IF live[FixtureRealm] = NoDoc THEN {"error"} ELSE {"ok", "error"}) :
        /\ Logged("get_user", FixtureRealm, resp)
        /\ IF resp = "ok"
           THEN /\ user_id' = Null
                /\ pc' = "create_user"
           ELSE /\ Abort
                /\ UNCHANGED user_id
    /\ UNCHANGED <<secrets_infra, issued, args, run, realm_idx, existing, current, desired, merged, parent_id,
                   trusted, files, live, comps, users, net, warnings, outside, prev,
                   start, discovered>>

\* get_user_id: GET users?username=...; users[0].get("id") or None
get_user_id ==
    /\ pc = "get_user_id"
    /\ \E resp \in (IF live[FixtureRealm] = NoDoc THEN {"error"} ELSE {"ok", "error"}) :
        /\ Logged("get_user", FixtureRealm, resp)
        /\ IF resp = "ok"
           THEN LET found == IF users[FixtureRealm] = NoUser
                             THEN Null ELSE Get(users[FixtureRealm], "id")
                IN  /\ user_id' = found
                    /\ pc' = IF Truthy(found) THEN "set_password" ELSE "create_user"
           ELSE /\ Abort
                /\ UNCHANGED user_id
    /\ UNCHANGED <<secrets_infra, issued, args, run, realm_idx, existing, current, desired, merged, parent_id,
                   trusted, files, live, comps, users, net, warnings, outside, prev, start, discovered>>

\* the server's answer to a create of the test user: 409 if it exists; a
\* 201 may come without a Location header
CreateUserAnswers(r) ==
    IF users[r] # NoUser THEN {"conflict", "error"} ELSE {"ok", "ok_no_location", "error"}

\* create_user, then the `if not user_id` test of ensure_test_user: without
\* an id (409, or no Location) a warning and a return
create_user ==
    /\ pc = "create_user"
    /\ \E resp \in CreateUserAnswers(FixtureRealm) :
        /\ Logged("create_user", FixtureRealm, resp)
        /\ users' = IF resp \in {"ok", "ok_no_location"}
                    THEN [users EXCEPT ![FixtureRealm] = [id |-> "user-new", password |-> Absent]]
                    ELSE users
        /\ CASE resp = "ok" ->
                    /\ user_id' = "user-new"
                    /\ pc' = "set_password"
                    /\ UNCHANGED <<warnings, realm_idx>>
             [] resp \in {"ok_no_location", "conflict"} ->
                    /\ user_id' = Null
                    /\ warnings' = Append(warnings, <<"could not create/find user", FixtureRealm>>)
                    /\ realm_idx' = realm_idx + 1
                    /\ pc' = "fixture_loop"
             [] OTHER ->
                    /\ Abort
                    /\ UNCHANGED <<user_id, warnings, realm_idx>>
    /\ UNCHANGED <<secrets_infra, issued, args, run, existing, current, desired, merged, parent_id, trusted,
                   files, live, comps, net, outside, prev, start, discovered>>

\* another actor creates the test user between the lookup and the create
OtherActorCreatesUser ==
    /\ pc = "create_user"
    /\ users[FixtureRealm] = NoUser
    /\ users' = [users EXCEPT ![FixtureRealm] = [id |-> "user-other", password |-> "other"]]
    /\ outside' = TRUE
    /\ UNCHANGED <<secrets_infra, issued, args, pc, run, realm_idx, existing, current, desired, merged, parent_id,
                   trusted, user_id, files, live, comps, net, calls, warnings, prev, start, discovered>>

\* a password reset followed by the policy step of the same realm
set_password_ThenPolicy ==
    /\ pc = "set_password"
    /\ Len(calls) < 40
    /\ \E resp \in {"ok", "error"} :
        /\ Logged("set_password", FixtureRealm, resp)
        /\ IF resp = "ok"
           THEN /\ users' = [users EXCEPT ![FixtureRealm] =
                        IF @ # NoUser /\ @.id = user_id
                        THEN [@ EXCEPT !.password = TEST_PASSWORD] ELSE @]
                /\ pc' = "get_realm_id"
                /\ UNCHANGED realm_idx
           ELSE /\ Abort
                /\ UNCHANGED <<users, realm_idx>>
    /\ UNCHANGED <<secrets_infra, issued, args, run, existing, current, desired, merged, parent_id, trusted,
                   user_id, files, live, comps, net, warnings, outside, prev,
                   start, discovered>>

\* a password reset after which ensure_test_user starts over for the same realm
set_password_Again ==
    /\ pc = "set_password"
    /\ Len(calls) < 30
    /\ \E resp \in {"ok", "error"} :
        /\ Logged("set_password", FixtureRealm, resp)
        /\ IF resp = "ok"
           THEN /\ users' = [users EXCEPT ![FixtureRealm] =
                        IF @ # NoUser /\ @.id = user_id
                        THEN [@ EXCEPT !.password = TEST_PASSWORD] ELSE @]
                /\ pc' = "get_user_id"
                /\ UNCHANGED realm_idx
           ELSE /\ Abort
                /\ UNCHANGED <<users, realm_idx>>
    /\ UNCHANGED <<secrets_infra, issued, args, run, existing, current, desired, merged, parent_id, trusted,
                   user_id, files, live, comps, net, warnings, outside, prev,
                   start, discovered>>

\* set_password: PUT users/{id}/reset-password with the declared password
set_password ==
    /\ pc = "set_password"
    /\ \E resp \in {"ok", "error"} :
        /\ Logged("set_password", FixtureRealm, resp)
        /\ IF resp = "ok"
           THEN /\ users' = [users EXCEPT ![FixtureRealm] =
                        IF @ # NoUser /\ @.id = user_id
                        THEN [@ EXCEPT !.password = TEST_PASSWORD] ELSE @]
                /\ realm_idx' = realm_idx + 1
                /\ pc' = "fixture_loop"
           ELSE /\ Abort
                /\ UNCHANGED <<users, realm_idx>>
    /\ UNCHANGED <<secrets_infra, issued, args, run, existing, current, desired, merged, parent_id, trusted,
                   user_id, files, live, comps, net, warnings, outside, prev, start, discovered>>

----------------------------------------------------------------------------
(* Runs of the script *)

\* the script has ended (return 0, or sys.exit with a message)
Ended == pc \in {"done", "aborted"}

\* some remote call of the current run was not answered with success
FailedCall == \E i \in DOMAIN calls : calls[i].status # "ok"

\* the operator runs the script again: a fresh process against the same
\* server, files and network
RunAgain ==
    /\ Ended
    /\ run < MaxRuns
    /\ prev' = [outcome |-> pc, live |-> live, comps |-> comps, users |-> users,
                 outside |-> outside, failed |-> FailedCall,
                 start |-> IF pc = "aborted" THEN start ELSE NoRun]
    /\ start' = [live |-> live, comps |-> comps, users |-> users]
    /\ discovered' = <<>>
    /\ run' = run + 1
    /\ pc' = "get_admin_token"
    /\ realm_idx' = 0
    /\ existing' = {}
    /\ current' = NoDoc
    /\ desired' = NoDoc
    /\ merged' = NoDoc
    /\ parent_id' = Absent
    /\ trusted' = NoDoc
    /\ user_id' = Absent
    /\ calls' = <<>>
    /\ warnings' = <<>>
    /\ outside' = FALSE
    /\ UNCHANGED <<secrets_infra, issued, args, files, live, comps, users, net>>

Next ==
    \/ get_admin_token
    \/ list_realms
    \/ realm_loop
    \/ create_realm_minimal
    \/ OtherActorCreatesRealm
    \/ get_realm_full
    \/ load_desired
    \/ update_realm
    \/ trusted_loop
    \/ get_realm_id
    \/ get_components
    \/ update_component
    \/ fixture_loop
    \/ get_user_id
    \/ create_user
    \/ OtherActorCreatesUser
    \/ set_password
    \/ RunAgain

Spec == Init /\ [][Next]_vars

\* the starts of the runs followed to their end: kairos-dev with any kind of
\* realm file, on the server or not; kairos-qa new with a file, or on the
\* server without one; kairos-prod on the server with its file
InitFair ==
    /\ pc = "get_admin_token"
    /\ run = 1
    /\ RunLocalsIdle
    /\ \E fd \in {NoFile, Malformed, FilePlain("kairos-dev")}, qa_new \in BOOLEAN :
        files = [r \in Realms |->
                    CASE r = "kairos-dev" -> fd
                      [] r = "kairos-qa" -> IF qa_new THEN FilePlain(r) ELSE NoFile
                      [] OTHER -> FilePlain(r)]
    /\ \E dev_new \in BOOLEAN :
        live = [r \in Realms |->
                    CASE r = "kairos-dev" -> IF dev_new THEN NoDoc ELSE LiveFull(r)
                      [] r = "kairos-qa" -> IF files[r] = NoFile THEN LiveFull(r) ELSE NoDoc
                      [] OTHER -> LiveFull(r)]
    /\ comps = [r \in Realms |-> IF live[r] = NoDoc THEN <<>> ELSE <<OtherComp, TrustedComp>>]
    /\ users = [r \in Realms |-> NoUser]
    /\ net = NetUp
    /\ prev = NoRun
    /\ start = [live |-> live, comps |-> comps, users |-> users]
    /\ discovered = <<>>

\* a step of the script itself (not of another actor, not a new run)
RunStep ==
    \/ get_admin_token
    \/ list_realms
    \/ realm_loop
    \/ create_realm_minimal
    \/ get_realm_full
    \/ load_desired
    \/ update_realm
    \/ trusted_loop
    \/ get_realm_id
    \/ get_components
    \/ update_component
    \/ fixture_loop
    \/ get_user_id
    \/ create_user
    \/ set_password

\* the runs of a script that keeps executing: main is one sequential thread
\* and every call it issues returns or raises (urlopen timeout=15, docker
\* subprocess timeout=5), so a step that is enabled is taken
SpecFair == InitFair /\ [][Next]_vars /\ WF_vars(RunStep)

\* the same runs, from the states that exercise the policy step
SpecPolicy == InitPolicy /\ [][Next]_vars

----------------------------------------------------------------------------
(* scripts/ensure_keycloak_trusted_hosts.py: main() against the same server *)

\* the two settings under the keys Keycloak reads, and under camelCase keys
CONFIG_DISABLE_STRICT ==
    [k \in {"host-sending-registration-request-must-match", "client-uris-must-match"} |->
        <<"false">>]

CONFIG_DISABLE_STRICT_CAMEL ==
    [k \in {"hostSendingRegistrationRequestMustMatch", "clientUrisMustMatch"} |->
        <<"false">>]

\* config.get(k) == v
ConfigHas(config, k, v) == k \in DOMAIN config /\ config[k] = v

\* config.update(other)
ConfigUpdate(config, other) ==
    [k \in DOMAIN config \cup DOMAIN other |->
        IF k \in DOMAIN other THEN other[k] ELSE config[k]]

host_off(config) ==
    \/ ConfigHas(config, "host-sending-registration-request-must-match", <<"false">>)
    \/ ConfigHas(config, "hostSendingRegistrationRequestMustMatch", <<"false">>)

uris_off(config) ==
    \/ ConfigHas(config, "client-uris-must-match", <<"false">>)
    \/ ConfigHas(config, "clientUrisMustMatch", <<"false">>)

\* a config the component may hold before the run: the host list, and each
\* of the four keys missing (<<>> here), ["true"] or ["false"]
PriorConfig(h, u, hc, uc) ==
    LET vals == [k \in DOMAIN CONFIG_DISABLE_STRICT \cup DOMAIN CONFIG_DISABLE_STRICT_CAMEL |->
                    CASE k = "host-sending-registration-request-must-match" -> h
                      [] k = "client-uris-must-match" -> u
                      [] k = "hostSendingRegistrationRequestMustMatch" -> hc
                      [] OTHER -> uc]
    IN  [k \in {"trusted-hosts"} \cup {x \in DOMAIN vals : vals[x] # <<>>} |->
            IF k = "trusted-hosts" THEN <<"old-host">> ELSE vals[k]]

PriorConfigs ==
    {PriorConfig(h, u, hc, uc) : h \in {<<>>, <<"true">>, <<"false">>},
                                 u \in {<<>>, <<"true">>, <<"false">>},
                                 hc \in {<<>>, <<"true">>, <<"false">>},
                                 uc \in {<<>>, <<"true">>, <<"false">>}}

\* the client-registration-policy components of the realm before the run
PriorComps ==
    {<<OtherComp, [TrustedComp EXCEPT !.config = c]>> : c \in PriorConfigs}
    \cup {<<OtherComp>>, <<TrustedNoId>>, <<TrustedNoConfig>>}

\* the command line (--realm, --print-config) and KEYCLOAK_ADMIN_PASSWORD
ArgsSet ==
    [realm : {"kairos-dev", "kairos-qa"}, print_config : BOOLEAN,
     admin_password : {Absent, "secret"}]

InitTrustedHosts ==
    /\ pc = "get_admin_password"
    /\ run = 1
    /\ args \in ArgsSet
    /\ secrets_infra = NoSecrets /\ issued = 0
    /\ realm_idx = 0
    /\ existing = {}
    /\ current = NoDoc /\ desired = NoDoc /\ merged = NoDoc
    /\ parent_id = Absent /\ trusted = NoDoc /\ user_id = Absent
    /\ files = [r \in Realms |-> NoFile]
    /\ \E present \in BOOLEAN, cs \in PriorComps :
        /\ live = [r \in Realms |-> IF r = args.realm /\ ~present THEN NoDoc ELSE LiveFull(r)]
        /\ comps = [r \in Realms |->
                        IF r # args.realm THEN <<OtherComp, TrustedComp>>
                        ELSE IF present THEN cs ELSE <<>>]
    /\ users = [r \in Realms |-> NoUser]
    /\ net = NetUp
    /\ calls = <<>> /\ warnings = <<>> /\ outside = FALSE
    /\ prev = NoRun
    /\ start = [live |-> live, comps |-> comps, users |-> users]
    /\ discovered = <<>>

\* get_admin_password: without a password main prints an error and returns 1
get_admin_password ==
    /\ pc = "get_admin_password"
    /\ IF Truthy(args.admin_password)
       THEN pc' = "trusted_hosts_token" /\ UNCHANGED warnings
       ELSE /\ pc' = "returned_1"
            /\ warnings' = Append(warnings, <<"KEYCLOAK_ADMIN_PASSWORD not set", args.realm>>)
    /\ UNCHANGED <<secrets_infra, issued, args, run, realm_idx, existing, current, desired, merged, parent_id,
                   trusted, user_id, files, live, comps, users, net, calls, outside,
                   prev, start, discovered>>

\* get_admin_token of ensure_keycloak_trusted_hosts.py
trusted_hosts_get_admin_token ==
    /\ pc = "trusted_hosts_token"
    /\ \E resp \in {"ok", "error", "no_access_token"} :
        /\ Logged("token", "master", resp)
        /\ IF TokenRejected(resp) THEN Abort ELSE pc' = "trusted_hosts_realm_id"
    /\ UNCHANGED <<secrets_infra, issued, args, run, realm_idx, existing, current, desired, merged, parent_id,
                   trusted, user_id, files, live, comps, users, net, warnings,
                   outside, prev, start, discovered>>

\* get_realm_id of ensure_keycloak_trusted_hosts.py: data.get("id") or realm
trusted_hosts_get_realm_id ==
    /\ pc = "trusted_hosts_realm_id"
    /\ \E resp \in (IF live[args.realm] = NoDoc THEN {"error"} ELSE {"ok", "error"}) :
        /\ Logged("get_id", args.realm, resp)
        /\ IF resp = "ok"
           THEN /\ parent_id' = Or(Get(live[args.realm], "id"), args.realm)
                /\ pc' = "trusted_hosts_components"
           ELSE /\ Abort
                /\ UNCHANGED parent_id
    /\ UNCHANGED <<secrets_infra, issued, args, run, realm_idx, existing, current, desired, merged, trusted,
                   user_id, files, live, comps, users, net, warnings, outside, prev,
                   start, discovered>>

\* get_components, the search for the trusted-hosts component and the
\* tests of main up to `if host_off and uris_off: return 0`
trusted_hosts_get_components ==
    /\ pc = "trusted_hosts_components"
    /\ \E resp \in {"ok", "error"} :
        /\ Logged("get_components", args.realm, resp)
        /\ IF resp = "ok"
           THEN LET found == FirstTrusted(comps[args.realm], 1)
                IN  IF found = NoDoc
                    THEN /\ warnings' = Append(warnings, <<"no trusted hosts component", args.realm>>)
                         /\ pc' = "returned_0"
                         /\ UNCHANGED trusted
                    ELSE IF args.print_config
                    THEN /\ pc' = "returned_0"
                         /\ trusted' = found
                         /\ UNCHANGED warnings
                    ELSE IF ~Truthy(found.id)
                    THEN /\ warnings' = Append(warnings, <<"component has no id", args.realm>>)
                         /\ pc' = "returned_0"
                         /\ trusted' = found
                    ELSE /\ trusted' = found
                         /\ pc' = IF host_off(ConfigOf(found)) /\ uris_off(ConfigOf(found))
                                  THEN "returned_0" ELSE "trusted_hosts_update"
                         /\ UNCHANGED warnings
           ELSE /\ Abort
                /\ UNCHANGED <<trusted, warnings>>
    /\ UNCHANGED <<secrets_infra, issued, args, run, realm_idx, existing, current, desired, merged, parent_id,
                   user_id, files, live, comps, users, net, outside, prev, start,
                   discovered>>

\* config.update(CONFIG_DISABLE_STRICT); config.update(CONFIG_DISABLE_STRICT_CAMEL);
\* update_component with {**trusted, "config": config}
trusted_hosts_update_component ==
    /\ pc = "trusted_hosts_update"
    /\ \E resp \in {"ok", "error"} :
        /\ Logged("put_component", args.realm, resp)
        /\ IF resp = "ok"
           THEN LET config == ConfigUpdate(ConfigUpdate(ConfigOf(trusted), CONFIG_DISABLE_STRICT),
                                           CONFIG_DISABLE_STRICT_CAMEL)
                    payload == [trusted EXCEPT !.config = config]
                IN  /\ comps' = [comps EXCEPT ![args.realm] =
                            [i \in DOMAIN @ |-> IF @[i].id = trusted.id THEN payload ELSE @[i]]]
                    /\ pc' = "returned_0"
           ELSE /\ Abort
                /\ UNCHANGED comps
    /\ UNCHANGED <<secrets_infra, issued, args, run, realm_idx, existing, current, desired, merged, parent_id,
                   trusted, user_id, files, live, users, net, warnings, outside, prev,
                   start, discovered>>

\* ensure_keycloak_trusted_hosts.py has ended
Returned == pc \in {"returned_0", "returned_1", "aborted"}

\* between two runs, configure-keycloak-realms.py is run and its
\* ensure_trusted_hosts replaces the config of the realm's component
ConfigureRealms ==
    /\ Returned
    /\ ~outside
    /\ LET r == args.realm
           found == FirstTrusted(comps[r], 1)
       IN  /\ found # NoDoc /\ Truthy(found.id)
           /\ comps' = [comps EXCEPT ![r] =
                [i \in DOMAIN @ |->
                    IF @[i].id = found.id
                    THEN [found EXCEPT !.config =
                            TrustedConfig(ConfigOf(found), get_trusted_hosts_for_env(EnvKey(r)))]
                    ELSE @[i]]]
    /\ outside' = TRUE
    /\ UNCHANGED <<secrets_infra, issued, args, pc, run, realm_idx, existing, current, desired, merged,
                   parent_id, trusted, user_id, files, live, users, net, calls,
                   warnings, prev, start, discovered>>

\* the operator runs ensure_keycloak_trusted_hosts.py again on the same
\* realm, with or without --print-config
TrustedHostsAgain ==
    /\ Returned
    /\ run < MaxRuns
    /\ \E p \in BOOLEAN : args' = [args EXCEPT !.print_config = p]
    /\ prev' = [outcome |-> pc, live |-> live, comps |-> comps, users |-> users,
                 outside |-> outside, failed |-> FailedCall, start |-> NoRun]
    /\ start' = [live |-> live, comps |-> comps, users |-> users]
    /\ run' = run + 1
    /\ pc' = "get_admin_password"
    /\ parent_id' = Absent
    /\ trusted' = NoDoc
    /\ calls' = <<>>
    /\ warnings' = <<>>
    /\ outside' = FALSE
    /\ UNCHANGED <<secrets_infra, issued, realm_idx, existing, current, desired, merged, user_id, files,
                   live, comps, users, net, discovered>>

NextTrustedHosts ==
    \/ get_admin_password
    \/ trusted_hosts_get_admin_token
    \/ trusted_hosts_get_realm_id
    \/ trusted_hosts_get_components
    \/ trusted_hosts_update_component
    \/ ConfigureRealms
    \/ TrustedHostsAgain

SpecTrustedHosts == InitTrustedHosts /\ [][NextTrustedHosts]_vars

----------------------------------------------------------------------------

(* scripts/ensure-keycloak-realms.py: main() against the same server *)

\* a realm file that declares another realm name than the one main pairs
\* it with
FileRenamed(r) == [FilePlain(r) EXCEPT !["realm"] = "renamed"]

\* the names under which the server may hold a realm
ServerNames == Realms \cup {"renamed"}

\* what keycloak/import holds for realm r
EnsureFileContents(r) ==
    IF r = "kairos-prod" THEN {NoFile, FilePlain(r)}
    ELSE {NoFile, Malformed, FilePlain(r), FileRenamed(r)}

InitEnsureRealms ==
    /\ pc = "ensure_realms_get_admin_password"
    /\ run = 1
    /\ args \in [admin_password : {Absent, "secret"}]
    /\ secrets_infra = NoSecrets /\ issued = 0
    /\ realm_idx = 0
    /\ existing = {}
    /\ current = NoDoc /\ desired = NoDoc /\ merged = NoDoc
    /\ parent_id = Absent /\ trusted = NoDoc /\ user_id = Absent
    /\ files \in [Realms -> UNION {EnsureFileContents(r) : r \in Realms}]
    /\ \A r \in Realms : files[r] \in EnsureFileContents(r)
    /\ \E held \in SUBSET Realms :
        live = [n \in ServerNames |-> IF n \in held THEN LiveFull(n) ELSE NoDoc]
    /\ comps = [r \in Realms |-> <<>>]
    /\ users = [r \in Realms |-> NoUser]
    /\ net = NetUp
    /\ calls = <<>> /\ warnings = <<>> /\ outside = FALSE
    /\ prev = NoRun
    /\ start = [live |-> live, comps |-> comps, users |-> users]
    /\ discovered = <<>>

\* main lines 104-106: without a password the script exits
ensure_realms_get_admin_password ==
    /\ pc = "ensure_realms_get_admin_password"
    /\ IF Truthy(args.admin_password) THEN pc' = "ensure_realms_token" ELSE Abort
    /\ UNCHANGED <<secrets_infra, issued, args, run, realm_idx, existing, current, desired, merged, parent_id,
                   trusted, user_id, files, live, comps, users, net, calls, warnings,
                   outside, prev, start, discovered>>

\* get_admin_token of ensure-keycloak-realms.py
ensure_realms_get_admin_token ==
    /\ pc = "ensure_realms_token"
    /\ \E resp \in {"ok", "error", "no_access_token"} :
        /\ Logged("token", "master", resp)
        /\ IF TokenRejected(resp) THEN Abort ELSE pc' = "ensure_realms_list"
    /\ UNCHANGED <<secrets_infra, issued, args, run, realm_idx, existing, current, desired, merged, parent_id,
                   trusted, user_id, files, live, comps, users, net, warnings,
                   outside, prev, start, discovered>>

\* list_realms of ensure-keycloak-realms.py
ensure_realms_list_realms ==
    /\ pc = "ensure_realms_list"
    /\ \E resp \in {"ok", "error"} :
        /\ Logged("list", "*", resp)
        /\ IF resp = "ok"
           THEN /\ existing' = {live[n]["realm"] : n \in {x \in ServerNames : live[x] # NoDoc}}
                /\ realm_idx' = 1
                /\ pc' = "ensure_realms_loop"
           ELSE /\ Abort
                /\ UNCHANGED <<existing, realm_idx>>
    /\ UNCHANGED <<secrets_infra, issued, args, run, current, desired, merged, parent_id, trusted, user_id,
                   files, live, comps, users, net, warnings, outside, prev, start,
                   discovered>>

\* head of `for realm_name, path in realm_files`: the `in existing` test,
\* the is_file test and json.loads
ensure_realms_loop ==
    /\ pc = "ensure_realms_loop"
    /\ IF realm_idx > Len(REALM_FILES)
       THEN /\ pc' = "done"
            /\ UNCHANGED <<realm_idx, warnings, desired>>
       ELSE IF RealmName \in existing
       THEN /\ realm_idx' = realm_idx + 1
            /\ UNCHANGED <<pc, warnings, desired>>
       ELSE IF files[RealmName] = NoFile
       THEN /\ warnings' = Append(warnings, <<"realm file not found", RealmName>>)
            /\ realm_idx' = realm_idx + 1
            /\ UNCHANGED <<pc, desired>>
       ELSE IF files[RealmName] = Malformed
       THEN /\ Abort
            /\ UNCHANGED <<realm_idx, warnings, desired>>
       ELSE /\ desired' = files[RealmName]
            /\ pc' = "create_realm"
            /\ UNCHANGED <<realm_idx, warnings>>
    /\ UNCHANGED <<secrets_infra, issued, args, run, existing, current, merged, parent_id, trusted, user_id,
                   files, live, comps, users, net, calls, outside, prev, start,
                   discovered>>

\* the server's answer to POST /admin/realms with realm_json: 409 if it
\* holds a realm of the name the document declares
CreateRealmAnswers(realm_json) ==
    IF live[realm_json["realm"]] # NoDoc THEN {"conflict", "error"} ELSE {"ok", "error"}

\* create_realm: POST the realm file; 409 returns False, any other
\* HTTPError exits
create_realm ==
    /\ pc = "create_realm"
    /\ \E resp \in CreateRealmAnswers(desired) :
        /\ Logged("create", RealmName, resp)
        /\ live' = IF resp = "ok"
                   THEN [live EXCEPT ![desired["realm"]] = ServerCreate(desired)]
                   ELSE live
        /\ IF CreateFatal(resp)
           THEN Abort /\ UNCHANGED realm_idx
           ELSE pc' = "ensure_realms_loop" /\ realm_idx' = realm_idx + 1
    /\ UNCHANGED <<secrets_infra, issued, args, run, existing, current, desired, merged, parent_id, trusted,
                   user_id, files, comps, users, net, warnings, outside, prev, start,
                   discovered>>

\* another actor creates the realm between the listing and the create call
OtherActorCreatesDeclaredRealm ==
    /\ pc = "create_realm"
    /\ live[desired["realm"]] = NoDoc
    /\ live' = [live EXCEPT ![desired["realm"]] = CreatedRealm(desired["realm"])]
    /\ outside' = TRUE
    /\ UNCHANGED <<secrets_infra, issued, args, pc, run, realm_idx, existing, current, desired, merged,
                   parent_id, trusted, user_id, files, comps, users, net, calls,
                   warnings, prev, start, discovered>>

\* the operator runs ensure-keycloak-realms.py again
EnsureRealmsAgain ==
    /\ Ended
    /\ run < MaxRuns
    /\ prev' = [outcome |-> pc, live |-> live, comps |-> comps, users |-> users,
                 outside |-> outside, failed |-> FailedCall, start |-> NoRun]
    /\ start' = [live |-> live, comps |-> comps, users |-> users]
    /\ run' = run + 1
    /\ pc' = "ensure_realms_get_admin_password"
    /\ realm_idx' = 0
    /\ existing' = {}
    /\ desired' = NoDoc
    /\ calls' = <<>>
    /\ warnings' = <<>>
    /\ outside' = FALSE
    /\ UNCHANGED <<secrets_infra, issued, args, current, merged, parent_id, trusted, user_id, files, live,
                   comps, users, net, discovered>>

NextEnsureRealms ==
    \/ ensure_realms_get_admin_password
    \/ ensure_realms_get_admin_token
    \/ ensure_realms_list_realms
    \/ ensure_realms_loop
    \/ create_realm
    \/ OtherActorCreatesDeclaredRealm
    \/ EnsureRealmsAgain

SpecEnsureRealms == InitEnsureRealms /\ [][NextEnsureRealms]_vars

----------------------------------------------------------------------------

(* scripts/delete-keycloak-realms.py: main() against the same server *)

REALMS_TO_DELETE == <<"kairos-dev", "kairos-qa", "kairos-prod">>

\* a delete_realm that exits on every HTTPError
DeleteFatalOn404(resp) == resp # "ok"

\* delete_realm: 404 returns False, any other HTTPError exits
DeleteFatal(resp) == resp \notin {"ok", "not_found"}

InitDeleteRealms ==
    /\ pc = "delete_realms_get_admin_password"
    /\ run = 1
    /\ args \in [admin_password : {Absent, "secret"}]
    /\ secrets_infra = NoSecrets /\ issued = 0
    /\ realm_idx = 0
    /\ existing = {}
    /\ current = NoDoc /\ desired = NoDoc /\ merged = NoDoc
    /\ parent_id = Absent /\ trusted = NoDoc /\ user_id = Absent
    /\ files = [r \in Realms |-> NoFile]
    /\ \E held \in SUBSET Realms :
        live = [r \in Realms |-> IF r \in held THEN LiveFull(r) ELSE NoDoc]
    /\ comps = [r \in Realms |-> <<>>]
    /\ users = [r \in Realms |-> NoUser]
    /\ net = NetUp
    /\ calls = <<>> /\ warnings = <<>> /\ outside = FALSE
    /\ prev = NoRun
    /\ start = [live |-> live, comps |-> comps, users |-> users]
    /\ discovered = <<>>

\* main lines 90-92: without a password the script exits
delete_realms_get_admin_password ==
    /\ pc = "delete_realms_get_admin_password"
    /\ IF Truthy(args.admin_password) THEN pc' = "delete_realms_token" ELSE Abort
    /\ UNCHANGED <<secrets_infra, issued, args, run, realm_idx, existing, current, desired, merged, parent_id,
                   trusted, user_id, files, live, comps, users, net, calls, warnings,
                   outside, prev, start, discovered>>

\* get_admin_token of delete-keycloak-realms.py
delete_realms_get_admin_token ==
    /\ pc = "delete_realms_token"
    /\ \E resp \in {"ok", "error", "no_access_token"} :
        /\ Logged("token", "master", resp)
        /\ IF TokenRejected(resp)
           THEN Abort /\ UNCHANGED realm_idx
           ELSE pc' = "delete_realm" /\ realm_idx' = 1
    /\ UNCHANGED <<secrets_infra, issued, args, run, existing, current, desired, merged, parent_id,
                   trusted, user_id, files, live, comps, users, net, warnings,
                   outside, prev, start, discovered>>

\* the server's answer to DELETE /admin/realms/{realm}: 404 if it holds no
\* realm of that name
DeleteRealmAnswers(realm) ==
    IF live[realm] = NoDoc THEN {"not_found", "error"} ELSE {"ok", "error"}

\* `for realm in REALMS_TO_DELETE: delete_realm(...)`, then return 0.  A
\* deleted realm goes with its components and users.
delete_realm ==
    /\ pc = "delete_realm"
    /\ IF realm_idx > Len(REALMS_TO_DELETE)
       THEN /\ pc' = "done"
            /\ UNCHANGED <<realm_idx, calls, live, comps, users>>
       ELSE \E resp \in DeleteRealmAnswers(REALMS_TO_DELETE[realm_idx]) :
            LET realm == REALMS_TO_DELETE[realm_idx] IN
            /\ Logged("delete", realm, resp)
            /\ IF resp = "ok"
               THEN /\ live' = [live EXCEPT ![realm] = NoDoc]
                    /\ comps' = [comps EXCEPT ![realm] = <<>>]
                    /\ users' = [users EXCEPT ![realm] = NoUser]
               ELSE UNCHANGED <<live, comps, users>>
            /\ IF DeleteFatal(resp)
               THEN Abort /\ UNCHANGED realm_idx
               ELSE realm_idx' = realm_idx + 1 /\ UNCHANGED pc
    /\ UNCHANGED <<secrets_infra, issued, args, run, existing, current, desired, merged, parent_id, trusted,
                   user_id, files, net, warnings, outside, prev, start, discovered>>

\* another actor (a Keycloak restart with --import-realm, or
\* configure-keycloak-realms.py) brings a realm back
OtherActorRestoresRealm ==
    /\ \E r \in Realms :
        /\ live[r] = NoDoc
        /\ live' = [live EXCEPT ![r] = CreatedRealm(r)]
    /\ outside' = TRUE
    /\ UNCHANGED <<secrets_infra, issued, args, pc, run, realm_idx, existing, current, desired, merged,
                   parent_id, trusted, user_id, files, comps, users, net, calls,
                   warnings, prev, start, discovered>>

\* the operator runs delete-keycloak-realms.py again
DeleteRealmsAgain ==
    /\ Ended
    /\ run < MaxRuns
    /\ prev' = [outcome |-> pc, live |-> live, comps |-> comps, users |-> users,
                 outside |-> outside, failed |-> FailedCall, start |-> start]
    /\ start' = [live |-> live, comps |-> comps, users |-> users]
    /\ run' = run + 1
    /\ pc' = "delete_realms_get_admin_password"
    /\ realm_idx' = 0
    /\ calls' = <<>>
    /\ outside' = FALSE
    /\ UNCHANGED <<secrets_infra, issued, args, existing, current, desired, merged, parent_id, trusted,
                   user_id, files, live, comps, users, net, warnings, discovered>>

NextDeleteRealms ==
    \/ delete_realms_get_admin_password
    \/ delete_realms_get_admin_token
    \/ delete_realm
    \/ OtherActorRestoresRealm
    \/ DeleteRealmsAgain

SpecDeleteRealms == InitDeleteRealms /\ [][NextDeleteRealms]_vars

----------------------------------------------------------------------------

(* scripts/generate_dev_secrets.py: main() without --write-templates and   *)
(* --verify.  An env file is the dict parse_env_file reads from it: key -> *)
(* the text after `=`.                                                     *)

SECRET_KEYS_INFRA == <<"KEYCLOAK_ADMIN_PASSWORD", "KEYCLOAK_DB_PASSWORD", "QDRANT_API_KEY">>

SECRET_KEYS_DEV ==
    <<"KEYCLOAK_ADMIN_PASSWORD", "KEYCLOAK_DB_PASSWORD", "QDRANT_API_KEY",
      "SESSION_SECRET", "OPENAI_API_KEY">>

\* the keys main requires of .env.dev after the write
REQUIRED_DEV == <<"REDIS_URL", "QDRANT_URL", "QDRANT_COLLECTION">>

InfraKeys == Range(SECRET_KEYS_INFRA)

placeholder_for(key) ==
    CASE key = "KEYCLOAK_ADMIN_PASSWORD" -> "__KEYCLOAK_ADMIN_PASSWORD__"
      [] key = "KEYCLOAK_DB_PASSWORD" -> "__KEYCLOAK_DB_PASSWORD__"
      [] key = "QDRANT_API_KEY" -> "__QDRANT_API_KEY__"
      [] key = "SESSION_SECRET" -> "__SESSION_SECRET__"
      [] key = "OPENAI_API_KEY" -> "__OPENAI_API_KEY__"
      [] key = "REDIS_URL" -> "__REDIS_URL__"

\* the names a placeholder of the files drawn can carry
PlaceholderNames == Range(SECRET_KEYS_DEV) \cup {"REDIS_URL"}

\* PLACEHOLDER_RE matches the whole of __NAME__
is_placeholder(value) == \E key \in PlaceholderNames : value = placeholder_for(key)

\* PLACEHOLDER_RE.match(v).group(1)
var_name(value) == CHOOSE key \in PlaceholderNames : value = placeholder_for(key)

\* str.strip on the values drawn: one of them has leading blanks
Strip(v) ==
    CASE v = Absent -> ""
      [] v = "  bkp-literal" -> "bkp-literal"
      [] OTHER -> v

\* dict.get(key), None as Absent
EnvGet(d, key) == IF key \in DOMAIN d THEN d[key] ELSE Absent

\* d[key] = value
Put(d, key, value) == [k \in DOMAIN d \cup {key} |-> IF k = key THEN value ELSE d[k]]

\* {**a, **b}
Merge(a, b) == [k \in DOMAIN a \cup DOMAIN b |-> IF k \in DOMAIN b THEN b[k] ELSE a[k]]

EmptyDict == [k \in {} |-> ""]

\* path.exists()
Exists(path) == "none" \notin DOMAIN files[path]

\* parse_env_file: {} for a file that does not exist
parse_env_file(path) == IF Exists(path) THEN files[path] ELSE EmptyDict

\* the values secrets.token_urlsafe and secrets.token_hex return, in the
\* order of the calls: no two calls return the same value
TOKENS == <<"token-1", "token-2", "token-3", "token-4", "token-5", "token-6",
            "token-7", "token-8", "token-9">>

\* os.environ.get(key)
Environ(key) == EnvGet(args.environ, key)

\* resolve_secrets, one key: the value, and whether a secret was drawn
ResolveKey(key, existing_env, force, n) ==
    LET val == Or(Environ(key), EnvGet(existing_env, key)) IN
    IF Truthy(val) /\ ~force THEN [value |-> val, issued |-> n]
    ELSE IF key \in InfraKeys THEN [value |-> TOKENS[n + 1], issued |-> n + 1]
    ELSE IF key = "SESSION_SECRET"
    THEN IF Truthy(Environ(key)) THEN [value |-> Environ(key), issued |-> n]
         ELSE [value |-> TOKENS[n + 1], issued |-> n + 1]
    ELSE [value |-> Or(Environ(key), ""), issued |-> n]

\* resolve_secrets: `for key in keys`, from the left; n secrets were drawn
\* before the call
RECURSIVE resolve_secrets(_, _, _, _)
resolve_secrets(keys, existing_env, force, n) ==
    IF keys = <<>> THEN [resolved |-> EmptyDict, issued |-> n]
    ELSE LET one == ResolveKey(Head(keys), existing_env, force, n)
             rest == resolve_secrets(Tail(keys), existing_env, force, one.issued)
         IN [resolved |-> Put(rest.resolved, Head(keys), one.value),
             issued |-> rest.issued]

\* replace_placeholders(data, secrets_infra, secrets_dev)
replace_placeholders(data, infra, dev) ==
    [k \in DOMAIN data |->
        LET v == Strip(data[k]) IN
        IF is_placeholder(v)
        THEN Or(EnvGet(dev, var_name(v)), Or(EnvGet(infra, var_name(v)), Or(Environ(var_name(v)), "")))
        ELSE v]

\* main lines 206-208: `for k in SECRET_KEYS_INFRA`, keys without a value
\* take the resolved secret
RECURSIVE EnsureInfraKeys(_, _, _)
EnsureInfraKeys(keys, data, infra) ==
    IF keys = <<>> THEN data
    ELSE LET k == Head(keys)
             d == IF k \notin DOMAIN data \/ Strip(EnvGet(data, k)) = ""
                  THEN Put(data, k, Or(EnvGet(infra, k), ""))
                  ELSE data
         IN EnsureInfraKeys(Tail(keys), d, infra)

\* main lines 216-218: the infra credentials are copied into dev_data
RECURSIVE SyncInfraKeys(_, _, _)
SyncInfraKeys(keys, data, infra) ==
    IF keys = <<>> THEN data
    ELSE LET k == Head(keys)
             d == IF Truthy(EnvGet(infra, k)) THEN Put(data, k, infra[k]) ELSE data
         IN SyncInfraKeys(Tail(keys), d, infra)

\* required keys that are missing or empty in the file at path
Missing(path, required) ==
    {k \in Range(required) : LET data == parse_env_file(path) IN
        k \notin DOMAIN data \/ Strip(EnvGet(data, k)) = ""}

ENV == ".env"
ENV_DEV == ".env.dev"
ENV_TPL == "scripts/env/.env.template"
ENV_DEV_TPL == "scripts/env/.env.dev.template"
BKP_ENV == "bkp/.env"
BKP_ENV_DEV == "bkp/.env.dev"

GenerateFiles == {ENV, ENV_DEV, ENV_TPL, ENV_DEV_TPL, BKP_ENV, BKP_ENV_DEV}

\* main lines 194-195: the template if there is one, else the backup
infra_src == IF Exists(ENV_TPL) THEN ENV_TPL ELSE BKP_ENV
dev_src == IF Exists(ENV_DEV_TPL) THEN ENV_DEV_TPL ELSE BKP_ENV_DEV

\* an env file with value(k) for the keys that have one
FileOf(keys, value(_)) == [k \in {x \in keys : value(x) # Absent} |-> value(k)]

\* what the infra template can hold for each key: no line, a literal value
\* or the placeholder of the key
InfraTemplates ==
    {FileOf(InfraKeys, LAMBDA k : IF f[k] = "placeholder" THEN placeholder_for(k) ELSE f[k]) :
        f \in [InfraKeys -> {Absent, "literal", "placeholder"}]}

InfraAllPlaceholders == [k \in InfraKeys |-> placeholder_for(k)]

\* bkp/.env holds literal values, written with or without blanks after `=`
InfraBackups == {[k \in InfraKeys |-> "bkp-literal"], [k \in InfraKeys |-> "  bkp-literal"]}

DevUrls == [k \in Range(REQUIRED_DEV) |-> "url"]

DevTemplates ==
    {Merge(DevUrls, [k \in Range(SECRET_KEYS_DEV) |-> placeholder_for(k)]),
     Merge(DevUrls, [k \in InfraKeys |-> "dev-literal"]),
     Merge([k \in {"QDRANT_URL", "QDRANT_COLLECTION"} |-> "url"],
           [k \in {"REDIS_URL"} \cup InfraKeys |-> placeholder_for(k)])}

DevBackups == {Merge(DevUrls, [k \in Range(SECRET_KEYS_DEV) |-> "bkp-literal"])}

\* .env as an earlier run or the operator left it
ExistingEnvs ==
    {NoFile} \cup {[k \in S |-> "old-secret"] : S \in SUBSET InfraKeys \ {{}}}

ExistingDevEnvs == {NoFile, [k \in Range(SECRET_KEYS_DEV) |-> "old-dev-secret"]}

InitGenerate ==
    /\ pc = "generate"
    /\ run = 1
    /\ args \in [force : BOOLEAN, environ : [InfraKeys -> {Absent, "from-env"}]]
    /\ secrets_infra = NoSecrets /\ issued = 0
    /\ realm_idx = 0
    /\ existing = {}
    /\ current = NoDoc /\ desired = NoDoc /\ merged = NoDoc
    /\ parent_id = Absent /\ trusted = NoDoc /\ user_id = Absent
    /\ \E env \in ExistingEnvs, dev \in ExistingDevEnvs,
          tpl \in {NoFile} \cup InfraTemplates, bkp \in {NoFile} \cup InfraBackups,
          dev_tpl \in {NoFile} \cup DevTemplates, dev_bkp \in {NoFile} \cup DevBackups :
        /\ bkp # NoFile => tpl \in {NoFile, InfraAllPlaceholders}
        /\ dev_bkp # NoFile => dev_tpl = NoFile
        /\ files = [path \in GenerateFiles |->
                      CASE path = ENV -> env
                        [] path = ENV_DEV -> dev
                        [] path = ENV_TPL -> tpl
                        [] path = ENV_DEV_TPL -> dev_tpl
                        [] path = BKP_ENV -> bkp
                        [] path = BKP_ENV_DEV -> dev_bkp]
    /\ live = [r \in Realms |-> NoDoc]
    /\ comps = [r \in Realms |-> <<>>]
    /\ users = [r \in Realms |-> NoUser]
    /\ net = NetUp
    /\ calls = <<>> /\ warnings = <<>> /\ outside = FALSE
    /\ prev = NoRun
    /\ start = [live |-> live, comps |-> comps, users |-> users]
    /\ discovered = <<>>

\* main lines 194-199: both sources must exist
generate_sources ==
    /\ pc = "generate"
    /\ IF Exists(infra_src) /\ Exists(dev_src) THEN pc' = "write_env" ELSE Abort
    /\ UNCHANGED <<secrets_infra, issued, args, run, realm_idx, existing, current,
                   desired, merged, parent_id, trusted, user_id, files, live, comps,
                   users, net, calls, warnings, outside, prev, start, discovered>>

\* main lines 201-210: resolve the secrets and write .env
write_env ==
    /\ pc = "write_env"
    /\ LET res == resolve_secrets(SECRET_KEYS_INFRA, parse_env_file(ENV), args.force, issued)
           replaced == replace_placeholders(parse_env_file(infra_src), res.resolved, res.resolved)
           infra_data == EnsureInfraKeys(SECRET_KEYS_INFRA, replaced, res.resolved)
       IN /\ secrets_infra' = res.resolved
          /\ issued' = res.issued
          /\ files' = [files EXCEPT ![ENV] = infra_data]
    /\ pc' = "write_env_dev"
    /\ UNCHANGED <<args, run, realm_idx, existing, current, desired, merged, parent_id,
                   trusted, user_id, live, comps, users, net, calls, warnings, outside,
                   prev, start, discovered>>

\* main lines 213-233: fill the dev template and write .env.dev
write_env_dev ==
    /\ pc = "write_env_dev"
    /\ LET res == resolve_secrets(SECRET_KEYS_DEV, parse_env_file(ENV_DEV), args.force, issued)
           replaced == replace_placeholders(parse_env_file(dev_src), secrets_infra,
                                            Merge(secrets_infra, res.resolved))
           synced == SyncInfraKeys(SECRET_KEYS_INFRA, replaced, secrets_infra)
           draws == Strip(EnvGet(synced, "SESSION_SECRET")) = "" /\ ~Truthy(Environ("SESSION_SECRET"))
           session == IF Strip(EnvGet(synced, "SESSION_SECRET")) = ""
                      THEN Put(synced, "SESSION_SECRET",
                               Or(Environ("SESSION_SECRET"), TOKENS[res.issued + 1]))
                      ELSE synced
           dev_data == IF Strip(EnvGet(session, "OPENAI_API_KEY")) = ""
                       THEN Put(session, "OPENAI_API_KEY", Or(Environ("OPENAI_API_KEY"), ""))
                       ELSE session
       IN /\ issued' = IF draws THEN res.issued + 1 ELSE res.issued
          /\ files' = [files EXCEPT ![ENV_DEV] = dev_data]
    /\ pc' = "validate"
    /\ UNCHANGED <<secrets_infra, args, run, realm_idx, existing, current, desired,
                   merged, parent_id, trusted, user_id, live, comps, users, net, calls,
                   warnings, outside, prev, start, discovered>>

\* main lines 236-245: both files are read back; a missing or empty
\* required key exits
validate ==
    /\ pc = "validate"
    /\ IF Missing(ENV, SECRET_KEYS_INFRA) = {} /\ Missing(ENV_DEV, REQUIRED_DEV) = {}
       THEN pc' = "done"
       ELSE Abort
    /\ UNCHANGED <<secrets_infra, issued, args, run, realm_idx, existing, current,
                   desired, merged, parent_id, trusted, user_id, files, live, comps,
                   users, net, calls, warnings, outside, prev, start, discovered>>

NextGenerate ==
    \/ generate_sources
    \/ write_env
    \/ write_env_dev
    \/ validate

SpecGenerate == InitGenerate /\ [][NextGenerate]_vars

----------------------------------------------------------------------------

(* Properties *)

LastCall == calls[Len(calls)]

\* positions in the call log of the calls `op` on realm r
Idx(op, r) == {i \in DOMAIN calls : calls[i].op = op /\ calls[i].realm = r}

\* the PUT of realm r has just been answered 2xx; current, desired and
\* merged are still those of r
Replaced(r) == pc = "realm_loop" /\ calls # <<>> /\ LastCall = Call("put", r, "ok")

HasId(m) == Get(m, "id") # Null

\* natural keys the desired collection lists
DesiredKeys(des, coll) ==
    {d[KeyField(coll)] : d \in {x \in Range(des[coll]) : Truthy(x[KeyField(coll)])}}

\* two runs in succession have both reached the end, with no call that
\* failed and no other actor at work in either
TwoCleanRuns ==
    /\ pc = "done" /\ ~FailedCall /\ ~outside
    /\ prev # NoRun /\ prev.outcome = "done" /\ ~prev.failed /\ ~prev.outside

\* C1 as stated. Idempotence of a run: two runs in succession that both
\* reach the end, with no failing call and no other actor in between,
\* leave the realms after the second run as they were after the first.
C1_Idempotent == TwoCleanRuns => live = prev.live

\* in collection coll of document out, every member with the natural key of
\* a current member that has an id and is listed in desired carries that id
KeysPreserved(cur, des, out, coll) ==
    \A c \in Range(cur[coll]) :
        LET K == c[KeyField(coll)]
        IN  (Truthy(K) /\ HasId(c) /\ K \in DesiredKeys(des, coll))
            => /\ \E m \in Range(out[coll]) : m[KeyField(coll)] = K
               /\ \A m \in Range(out[coll]) : m[KeyField(coll)] = K => m["id"] = c["id"]

\* C2. Identity preservation: a client or flow that the live realm holds
\* with a remote id, and that desired lists by natural key, has that same
\* id in the output of _merge_realm and in the realm after the PUT,
\* whatever id the desired member declares.
C2_IdentityPreserved ==
    /\ MergeDone => \A coll \in Collections : KeysPreserved(current, desired, merged, coll)
    /\ \A r \in Realms :
        Replaced(r) => \A coll \in Collections : KeysPreserved(current, desired, live[r], coll)

\* a realm replaced whose client a kept the server's id although the file
\* declares another
C2_Witness ==
    \E r \in Realms :
        /\ Replaced(r)
        /\ \E c \in Range(current["clients"]), d \in Range(desired["clients"]),
              m \in Range(live[r]["clients"]) :
            /\ c["clientId"] = "a" /\ d["clientId"] = "a" /\ m["clientId"] = "a"
            /\ HasId(c) /\ HasId(d) /\ d["id"] # c["id"] /\ m["id"] = c["id"]

\* C3 as stated: where desired lists a collection, the merged collection
\* holds the desired members only; a member whose natural key is in current
\* alone is dropped.
C3_CurrentOnlyDropped ==
    MergeDone =>
        \A coll \in Collections :
            desired[coll] # <<>> =>
                \A m \in Range(merged[coll]) :
                    Truthy(m[KeyField(coll)]) => m[KeyField(coll)] \in DesiredKeys(desired, coll)

\* the current members whose natural key desired does not list
KeptMembers(cur, des, coll) ==
    LET Kept(c) == Get(c, KeyField(coll)) \notin DesiredKeys(des, coll)
    IN  SelectSeq(cur[coll], Kept)

\* the desired members that have a natural key
KeyedMembers(des, coll) ==
    LET Keyed(d) == Truthy(d[KeyField(coll)])
    IN  SelectSeq(des[coll], Keyed)

\* C3 amended. The merged collection is the current members whose natural
\* key desired does not list, unchanged and in their order, followed by one
\* member per desired member with a natural key, in desired's order, with
\* the id of the current member of that key if it has one and else the id
\* desired declares.
C3_CurrentOnlyRetained ==
    MergeDone =>
        \A coll \in Collections :
            LET kept == KeptMembers(current, desired, coll)
                keyed == KeyedMembers(desired, coll)
                out == merged[coll]
                kf == KeyField(coll)
            IN  /\ Len(out) = Len(kept) + Len(keyed)
                /\ \A i \in 1..Len(kept) : out[i] = kept[i]
                /\ \A j \in 1..Len(keyed) :
                    LET m == out[Len(kept) + j]
                        same == {c \in Range(current[coll]) : c[kf] = keyed[j][kf] /\ HasId(c)}
                    IN  /\ m[kf] = keyed[j][kf]
                        /\ \A c \in same : m["id"] = c["id"]
                        /\ same = {} => m["id"] = keyed[j]["id"]

\* current {A, B}, desired {A', C}: merged is B, A' with A's id, C
C3_Witness ==
    /\ pc = "merged"
    /\ \E A, B \in Range(current["clients"]), A1, C \in Range(desired["clients"]) :
        /\ A["clientId"] = "a" /\ B["clientId"] = "b" /\ HasId(A) /\ HasId(B)
        /\ A1["clientId"] = "a" /\ C["clientId"] = "c" /\ ~HasId(A1) /\ ~HasId(C)
        /\ Len(current["clients"]) = 2 /\ Len(desired["clients"]) = 2
        /\ merged["clients"] = <<B, [A1 EXCEPT !["id"] = A["id"]], C>>

\* C4 as stated: every top-level field outside the allow-list and the two
\* collections, the id among them, has current's value in merged.
C4_UnlistedFromCurrent ==
    MergeDone =>
        \A k \in RealmFields \ (AllowList \cup Collections) : merged[k] = current[k]

\* C4 amended. Every top-level field outside the allow-list and the two
\* collections, other than id, has current's value in merged; the id is
\* current's when current has a non-empty id, and else desired's id, or
\* current's realm name when desired has no id either.
C4_UnlistedFromCurrentButId ==
    MergeDone =>
        /\ \A k \in UnmanagedFields : merged[k] = current[k]
        /\ Truthy(current["id"]) => merged["id"] = current["id"]
        /\ (~Truthy(current["id"]) /\ Truthy(desired["id"])) => merged["id"] = desired["id"]
        /\ (~Truthy(current["id"]) /\ ~Truthy(desired["id"]))
            => merged["id"] = Get(current, "realm")

\* desired carries an unlisted field and an id that differ from current's
C4_Witness ==
    /\ pc = "merged"
    /\ Truthy(current["id"]) /\ Truthy(desired["id"]) /\ desired["id"] # current["id"]
    /\ \E k \in UnmanagedFields :
        desired[k] # Absent /\ current[k] # Absent /\ desired[k] # current[k]

\* C5. Each allow-listed field has desired's value in merged if desired
\* holds the field, and current's value if it does not.
C5_AllowListed ==
    MergeDone =>
        \A k \in AllowList :
            /\ desired[k] # Absent => merged[k] = desired[k]
            /\ desired[k] = Absent => merged[k] = current[k]

\* desired overrides one allow-listed field with null and leaves the realm
\* name to current
C5_Witness ==
    /\ pc = "merged"
    /\ \E k \in AllowList : desired[k] = Null /\ current[k] = "cur" /\ merged[k] = Null
    /\ desired["realm"] = Absent /\ merged["realm"] = "kairos-dev"

\* m is d in every field but id
SameButId(m, d) == \A f \in MemberFields \ {"id"} : m[f] = d[f]

\* C6. No deep merge: each desired member with a natural key is emitted
\* with its own fields, the id excepted, and every merged member with a
\* desired natural key is such a copy.
C6_NoDeepMerge ==
    MergeDone =>
        \A coll \in Collections :
            /\ \A d \in Range(KeyedMembers(desired, coll)) :
                \E m \in Range(merged[coll]) : SameButId(m, d)
            /\ \A m \in Range(merged[coll]) :
                m[KeyField(coll)] \in DesiredKeys(desired, coll)
                    => \E d \in Range(desired[coll]) : SameButId(m, d)

\* a desired member without description replaces a current one that has one
C6_Witness ==
    /\ pc = "merged"
    /\ \E coll \in Collections :
        \E c \in Range(current[coll]), d \in Range(desired[coll]), m \in Range(merged[coll]) :
            /\ Truthy(d[KeyField(coll)]) /\ c[KeyField(coll)] = d[KeyField(coll)]
            /\ c["description"] = "cur" /\ d["description"] = Absent
            /\ HasId(c) /\ m = [d EXCEPT !["id"] = c["id"]]

\* C7. Ensure-exists: a create answered 409 does not end the run, and the
\* fetch of that realm is the next call (and its PUT follows in a run that
\* reaches the end); a create answered with any other error is the last
\* call of the run, which aborts.
C7_EnsureExists ==
    \A i \in DOMAIN calls :
        calls[i].op = "create" =>
            /\ calls[i].status = "conflict" =>
                /\ i = Len(calls) => pc = "get_realm_full"
                /\ i < Len(calls) =>
                    calls[i + 1].op = "get" /\ calls[i + 1].realm = calls[i].realm
                /\ pc = "done" =>
                    \E j \in Idx("put", calls[i].realm) : j > i /\ calls[j].status = "ok"
            /\ calls[i].status = "error" => (i = Len(calls) /\ pc = "aborted")

\* a run that met a 409 on create and went on to replace that realm
C7_Witness ==
    \E i \in DOMAIN calls :
        /\ calls[i].op = "create" /\ calls[i].status = "conflict"
        /\ \E j \in Idx("put", calls[i].realm) : j > i /\ calls[j].status = "ok"

\* C8. Upsert: in a run that reaches the end, each realm with a realm file
\* gets exactly one fetch and exactly one PUT, the PUT right after the
\* fetch, after any create of that realm, whether the realm existed or was
\* created and whether or not the merge changed the document.
C8_Upsert ==
    pc = "done" =>
        \A r \in Realms :
            files[r] # NoFile =>
                /\ Cardinality(Idx("get", r)) = 1
                /\ Cardinality(Idx("put", r)) = 1
                /\ \A g \in Idx("get", r), p \in Idx("put", r) : p = g + 1
                /\ \A c \in Idx("create", r), g \in Idx("get", r) : c < g

\* a complete run that replaced a realm with a document equal to the one
\* it had fetched
C8_Witness ==
    /\ pc = "done"
    /\ merged # NoDoc /\ merged = current
    /\ \E r \in Realms : Cardinality(Idx("put", r)) = 1 /\ live[r] = merged

\* C9 as stated: a run does not reach the end when a realm file does not
\* parse, and no create and no PUT is issued for the realm of that file.
C9_NoMutationBeforeParseFailure ==
    \A r \in Realms :
        files[r] = Malformed =>
            /\ pc # "done"
            /\ \A i \in DOMAIN calls :
                ~(calls[i].realm = r /\ calls[i].op \in {"create", "put"})

\* C10. The token call is the first remote call of a run; if it is
\* rejected, it is the only call, the run has aborted, and the server is as
\* the previous run left it.
C10_AuthBeforeAll ==
    calls # <<>> =>
        /\ calls[1].op = "token"
        /\ calls[1].status # "ok" =>
            /\ Len(calls) = 1
            /\ pc = "aborted"
            /\ prev # NoRun =>
                (live = prev.live /\ comps = prev.comps /\ users = prev.users)

\* a run ended by a token response without access_token, after a run that
\* had changed the server
C10_Witness ==
    /\ pc = "aborted"
    /\ calls = <<Call("token", "master", "no_access_token")>>
    /\ prev # NoRun /\ prev.outcome = "done"

----------------------------------------------------------------------------
(* Failure of a run *)

\* a call answered with an HTTPError that the function issuing it turns into
\* sys.exit: every HTTPError but the 409 of a create, and a token response
\* without access_token
FatalAnswer(c) == c.status \in {"error", "no_access_token"}

\* C11. Fail-stop without retry: a remote call answered with a fatal status
\* is the last call of its run, and the run has ended in an abort.
C11_FailStop ==
    \A i \in DOMAIN calls :
        FatalAnswer(calls[i]) => (i = Len(calls) /\ pc = "aborted")

\* a run aborted by the PUT of a realm, after calls that succeeded
C11_Witness ==
    /\ pc = "aborted"
    /\ Len(calls) > 3
    /\ LastCall.op = "put" /\ LastCall.status = "error"
    /\ \A i \in 1..(Len(calls) - 1) : calls[i].status = "ok"

\* what a run in which every call succeeds makes of the server st: step 1
\* replaces each realm that has a file by the merge of the realm (created
\* with defaults if st does not hold it) with the file
CleanLive(st) ==
    [r \in Realms |->
        IF files[r] = NoFile THEN st.live[r]
        ELSE _merge_realm(IF st.live[r] = NoDoc THEN CreatedRealm(r) ELSE st.live[r],
                          files[r])]

\* step 2 replaces the config of the trusted-hosts component of each realm
CleanComps(st) ==
    [r \in Realms |->
        LET cs == IF st.live[r] = NoDoc /\ files[r] # NoFile
                  THEN <<TrustedComp>> ELSE st.comps[r]
            found == FirstTrusted(cs, 1)
        IN  IF found = NoDoc \/ ~Truthy(found.id) THEN cs
            ELSE [i \in DOMAIN cs |->
                    IF cs[i].id = found.id
                    THEN [found EXCEPT !.config =
                            TrustedConfig(ConfigOf(found), get_trusted_hosts_for_env(EnvKey(r)))]
                    ELSE cs[i]]]

\* step 3 creates the test user where it is missing and sets its password
CleanUsers(st) ==
    [r \in Realms |->
        IF r \notin Range(FIXTURE_REALMS) THEN st.users[r]
        ELSE IF st.users[r] = NoUser \/ (st.live[r] = NoDoc /\ files[r] # NoFile)
        THEN [id |-> "user-new", password |-> TEST_PASSWORD]
        ELSE [st.users[r] EXCEPT !.password = TEST_PASSWORD]]

\* the current run has reached the end with every call answered with
\* success and no other actor at work
CleanRunDone == pc = "done" /\ ~FailedCall /\ ~outside

\* the current run is such a run and follows a run that aborted
RecoveredByRerun ==
    /\ CleanRunDone
    /\ prev # NoRun /\ prev.outcome = "aborted" /\ ~prev.outside

\* C12 as stated. Recovery by re-run: a complete run without a failing
\* call, after a run that aborted, leaves the server as one uninterrupted
\* run from the state before the aborted run would have left it.
C12_RecoveryByRerun ==
    RecoveredByRerun =>
        /\ live = CleanLive(prev.start)
        /\ comps = CleanComps(prev.start)
        /\ users = CleanUsers(prev.start)

\* the PUT of realm r was answered 2xx in the current run
PutDone(r) == \E i \in Idx("put", r) : calls[i].status = "ok"

\* C13. No rollback: in an aborted run, each realm whose PUT succeeded is
\* exactly the document that PUT wrote (the merge of the realm as fetched
\* with its file), and after that PUT the run issued no other create or PUT
\* for the realm.
C13_NoRollback ==
    pc = "aborted" =>
        \A r \in Realms :
            PutDone(r) =>
                /\ live[r] = CleanLive(start)[r]
                /\ Cardinality(Idx("put", r)) = 1
                /\ \A c \in Idx("create", r), p \in Idx("put", r) : c < p

\* a run that aborted after it had replaced a realm with a document other
\* than the one the run found
C13_Witness ==
    /\ pc = "aborted"
    /\ \E r \in Realms :
        /\ PutDone(r)
        /\ live[r] = CleanLive(start)[r]
        /\ live[r] # start.live[r]
        /\ LastCall.realm # r

----------------------------------------------------------------------------
(* Order of the calls of a run *)

\* the step of main that issues a call: 1 ensure-exists, 2 converge,
\* 3 policy (trusted hosts), 4 fixtures (test user); 0 for the token call
\* and the listing, which precede the loops
Phase(op) ==
    CASE op \in {"token", "list"} -> 0
      [] op = "create" -> 1
      [] op \in {"get", "put"} -> 2
      [] op \in {"get_id", "get_components", "put_component"} -> 3
      [] op \in {"get_user", "create_user", "set_password"} -> 4

\* C14. Phase order within a realm: no call of a run belongs to an earlier
\* phase than a call the run issued before it for the same realm.  The log
\* grows by one call at a time, so the property is stated for the newest
\* call of each state.
C14_PhaseOrder ==
    \A i \in 1..(Len(calls) - 1) :
        calls[i].realm = LastCall.realm => Phase(calls[i].op) <= Phase(LastCall.op)

\* a complete run that issued calls of all four phases for one realm
C14_Witness ==
    /\ pc = "done"
    /\ \E r \in Realms :
        \A ph \in 1..4 : \E i \in DOMAIN calls : calls[i].realm = r /\ Phase(calls[i].op) = ph

\* position of realm r in the declared order kairos-dev, kairos-qa,
\* kairos-prod
RealmPos(r) ==
    CASE r = "kairos-dev" -> 1
      [] r = "kairos-qa" -> 2
      [] r = "kairos-prod" -> 3

\* the loop of main that issues a call: 1 the realm loop (create, fetch,
\* PUT), 2 the trusted-hosts loop, 3 the test-user loop
Loop(op) == IF Phase(op) <= 2 THEN 1 ELSE Phase(op) - 1

\* calls of the run that address one of the managed realms
RealmCalls == {i \in DOMAIN calls : calls[i].realm \in Realms}

\* C15 as stated: realms are processed one at a time in declared order; no
\* call for a later realm precedes a call, of any phase, for an earlier one.
C15_RealmAtATime ==
    \A i, j \in RealmCalls :
        i < j => RealmPos(calls[i].realm) <= RealmPos(calls[j].realm)

\* C15 amended. The three loops of main run one after the other, each over
\* the realms in declared order: of two calls of a run, the earlier one
\* belongs to an earlier loop, or to the same loop and to a realm that is
\* not later in the declared order.  The order is transitive and the log
\* grows by one call at a time, so the property is stated for the newest
\* call of each state and the call before it.
C15_LoopThenRealm ==
    LET n == Len(calls)
    IN  (n >= 2 /\ calls[n - 1].realm \in Realms /\ calls[n].realm \in Realms) =>
            \/ Loop(calls[n - 1].op) < Loop(calls[n].op)
            \/ /\ Loop(calls[n - 1].op) = Loop(calls[n].op)
               /\ RealmPos(calls[n - 1].realm) <= RealmPos(calls[n].realm)

\* a run that replaced the last realm before it turned to the policy of
\* the first, and reached the end
C15_Witness ==
    /\ pc = "done"
    /\ \E i, j \in RealmCalls :
        /\ i < j
        /\ calls[i] = Call("put", "kairos-prod", "ok")
        /\ calls[j] = Call("get_id", "kairos-dev", "ok")

----------------------------------------------------------------------------
(* The policy step: ensure_trusted_hosts *)

\* the components of realm r have been fetched in the current run
Listed(r) == \E i \in Idx("get_components", r) : calls[i].status = "ok"

\* realm r holds no component whose providerId is trusted-hosts
NoTrustedComponent(r) == FirstTrusted(comps[r], 1) = NoDoc

\* ensure_trusted_hosts has met realm r without such a component
SoftFailed(r) == Listed(r) /\ NoTrustedComponent(r)

\* C16. Soft-fail on a missing component: once the components of a realm
\* without trusted-hosts component are fetched, ensure_trusted_hosts has
\* printed its warning and returned to main, which goes on; the run holds
\* no component PUT for the realm and no discovery for its environment.
C16_SoftFail ==
    \A r \in Realms :
        SoftFailed(r) =>
            /\ \E i \in DOMAIN warnings : warnings[i] = <<"no trusted hosts component", r>>
            /\ Idx("put_component", r) = {}
            /\ \A i \in DOMAIN discovered : discovered[i].env # EnvKey(r)
            /\ LastCall = Call("get_components", r, "ok") =>
                pc \notin {"aborted", "update_component"}

\* ensure_trusted_hosts has just returned for a realm that holds another
\* component but no trusted-hosts one
C16_Witness ==
    \E r \in Realms :
        /\ SoftFailed(r)
        /\ comps[r] = <<OtherComp>>
        /\ pc = "trusted_loop"
        /\ LastCall = Call("get_components", r, "ok")

\* C17. The run goes on after a soft-fail: only a call that fails ends it
\* before the end, the policy step has reached every later realm by the
\* time the test-user loop starts, and a run that reaches the end has looked
\* up the test user in each fixture realm.
C17_ContinuesAfterSoftFail ==
    \A r \in Realms :
        SoftFailed(r) =>
            /\ pc = "aborted" =>
                (FatalAnswer(LastCall) /\ LastCall # Call("get_components", r, "error"))
            /\ pc \in {"fixture_loop", "get_user_id", "create_user", "set_password", "done"} =>
                \A q \in Realms : RealmPos(q) > RealmPos(r) => Idx("get_id", q) # {}
            /\ pc = "done" =>
                \A q \in Range(FIXTURE_REALMS) : Idx("get_user", q) # {}

\* a run without a failing call that met a missing component in the second
\* realm, went on to update the component of the third, and reached the end
C17_Witness ==
    /\ pc = "done" /\ ~FailedCall
    /\ SoftFailed("kairos-qa")
    /\ \E i \in Idx("get_components", "kairos-qa"), j \in Idx("put_component", "kairos-prod") :
        i < j /\ calls[j].status = "ok"
    /\ \A q \in Range(FIXTURE_REALMS) : users[q] # NoUser /\ users[q].password = TEST_PASSWORD

\* the three config keys ensure_trusted_hosts writes
PolicyKeys ==
    {"host-sending-registration-request-must-match", "trusted-hosts",
     "client-uris-must-match"}

\* the component PUT of realm r has just been answered 2xx; `trusted` is
\* still the component as fetched
ComponentReplaced(r) == calls # <<>> /\ LastCall = Call("put_component", r, "ok")

\* C18. Policy update: after the component PUT of a realm, the realm's
\* trusted-hosts component has the two settings at their fixed values and
\* the computed host list, every other config key and the id and
\* providerId as fetched; it is the only component PUT of the run for the
\* realm, and the other components of the realm are as the run found them.
C18_PolicyUpdate ==
    \A r \in Realms :
        ComponentReplaced(r) =>
            LET new == FirstTrusted(comps[r], 1)
                old == ConfigOf(trusted)
                found == discovered[Len(discovered)]
            IN  /\ Cardinality(Idx("put_component", r)) = 1
                /\ found.env = EnvKey(r)
                /\ found.hosts = get_trusted_hosts_for_env(EnvKey(r))
                /\ new.id = trusted.id /\ new.providerId = trusted.providerId
                /\ DOMAIN new.config = DOMAIN old \cup PolicyKeys
                /\ new.config["host-sending-registration-request-must-match"] = <<"true">>
                /\ new.config["client-uris-must-match"] = <<"false">>
                /\ new.config["trusted-hosts"] = found.hosts
                /\ \A k \in DOMAIN old \ PolicyKeys : new.config[k] = old[k]
                /\ \A i \in DOMAIN comps[r] :
                    comps[r][i].id # trusted.id => comps[r][i] = start.comps[r][i]

\* a component replaced that held the two settings with other values, next
\* to a second component with the same providerId, which is left alone
C18_Witness ==
    /\ ComponentReplaced("kairos-prod")
    /\ trusted = TrustedStrict
    /\ comps["kairos-prod"][2] = TrustedComp
    /\ comps["kairos-prod"][1].config["client-uris-must-match"] = <<"false">>
    /\ comps["kairos-prod"][1].config["trusted-hosts"] # <<"old-host">>

----------------------------------------------------------------------------
(* The trusted-origin list *)

\* get_trusted_hosts_for_env has returned: its result and its environment
HostsDone == pc = "hosts_done"

Hosts == discovered[Len(discovered)].hosts

HostsEnv == discovered[Len(discovered)].env

\* every docker call fails: no gateway line and no container list
DiscoveryDown == net.gateway = Absent /\ ~net.inspect_ok

GatewayFound == Truthy(net.gateway) /\ net.gateway \in DottedQuads

\* dotted-quad addresses of the listed containers whose name contains
\* service_name
PeerAddresses(service_name) ==
    IF ~net.inspect_ok THEN {}
    ELSE {net.containers[i].IPv4Address[1] :
            i \in {j \in DOMAIN net.containers :
                    /\ NameContains(net.containers[j].Name, service_name)
                    /\ net.containers[j].IPv4Address[1] \in DottedQuads}}

----------------------------------------------------------------------------
(* The test user: ensure_test_user *)

\* a user create of the current run was answered 2xx without Location header
NoLocationAnswer == \E i \in DOMAIN calls : calls[i].status = "ok_no_location"

\* the run has reached the end, no other actor was at work during it, and
\* the server answered every user create it accepted with a Location header
FixturesDone == pc = "done" /\ ~outside /\ ~NoLocationAnswer

C22_UnconditionalReset ==
    pc = "done" =>
        \A r \in Range(FIXTURE_REALMS) :
            \E i \in Idx("set_password", r) : calls[i].status = "ok"

\* the calls of ensure_test_user
UserOps == {"get_user", "create_user", "set_password"}

\* C23. The test user is provisioned in dev and qa only: no user lookup,
\* user create or password reset is issued against kairos-prod, and the
\* run leaves the users of kairos-prod as it found them.
C23_NoFixtureInProd ==
    /\ \A i \in DOMAIN calls :
        calls[i].op \in UserOps => calls[i].realm \in {"kairos-dev", "kairos-qa"}
    /\ users["kairos-prod"] = start.users["kairos-prod"]

\* a run that reached the end after the policy step of kairos-prod and the
\* password resets of kairos-dev and kairos-qa
C23_Witness ==
    /\ pc = "done"
    /\ \E i \in Idx("put_component", "kairos-prod") : calls[i].status = "ok"
    /\ \A r \in {"kairos-dev", "kairos-qa"} :
        \E i \in Idx("set_password", r) : calls[i].status = "ok"
    /\ live["kairos-prod"] # NoDoc

----------------------------------------------------------------------------
(* Realms without a realm file *)

\* main has printed `Realm file not found ..., skip.` for realm r
Skipped(r) == \E i \in DOMAIN warnings : warnings[i] = <<"realm file not found", r>>

\* the calls of step 1 of main on one realm
RealmOps == {"create", "get", "put"}

\* main has left the loop of step 1
StepOneOver ==
    pc \in {"trusted_loop", "get_realm_id", "get_components", "update_component",
            "fixture_loop", "get_user_id", "create_user", "set_password", "done"}

\* C24. Absent desired document: the run issues no create, fetch or replace
\* call for a realm without realm file; after skipping it the run ends early
\* only on a call that fails or on a later file that does not parse; and by
\* the end of step 1 every realm without file was skipped and every realm
\* with a file was replaced.
C24_AbsentDocumentSkipped ==
    \A r \in Realms :
        /\ files[r] = NoFile =>
            \A i \in DOMAIN calls : calls[i].realm = r => calls[i].op \notin RealmOps
        /\ (Skipped(r) /\ pc = "aborted") =>
            \/ FatalAnswer(LastCall)
            \/ \E q \in Realms :
                /\ RealmPos(q) > RealmPos(r) /\ files[q] = Malformed
                /\ LastCall = Call("get", q, "ok")
        /\ StepOneOver => IF files[r] = NoFile THEN Skipped(r) ELSE PutDone(r)

\* a run that skipped kairos-dev, replaced kairos-qa and reached the end
C24_Witness ==
    /\ files["kairos-dev"] = NoFile /\ Skipped("kairos-dev")
    /\ files["kairos-qa"] # NoFile /\ PutDone("kairos-qa")
    /\ \E i \in Idx("list", "*"), j \in Idx("put", "kairos-qa") : j = i + 2
    /\ pc = "done"

\* C25 as stated. Later phases only for realms whose earlier phases
\* completed: a realm skipped in step 1 for want of a realm file receives no
\* call of the policy step or of the test-user step in that run, and no
\* call on it ends the run.
C25_SkippedRealmLeftAlone ==
    \A r \in Realms :
        Skipped(r) =>
            /\ \A i \in DOMAIN calls : calls[i].realm = r => Phase(calls[i].op) < 3
            /\ ~(pc = "aborted" /\ LastCall.realm = r)

----------------------------------------------------------------------------
(* The realm listing and the minimal create *)

\* a create call for realm r is in the log of the run
CreateIssued(r) == Idx("create", r) # {}

\* C26. The listing decides create-vs-skip: a run lists the realms once;
\* a create call is issued for a realm at most once, and only if the
\* listing lacks its name and its realm file is present; the realms the
\* run has fetched, and by the end of step 1 all realms, have had a create
\* call exactly if so; and the realm a successful create leaves is the
\* server's default realm of that name, enabled, with nothing of the file.
C26_ListingDecidesCreate ==
    /\ Cardinality(Idx("list", "*")) <= 1
    /\ \A r \in Realms :
        /\ Cardinality(Idx("create", r)) <= 1
        /\ CreateIssued(r) =>
            /\ r \notin existing /\ files[r] # NoFile
            /\ \E i \in Idx("list", "*") : calls[i].status = "ok"
        /\ (Idx("get", r) # {} \/ StepOneOver) =>
            (CreateIssued(r) <=> (r \notin existing /\ files[r] # NoFile))
        /\ (calls # <<>> /\ LastCall = Call("create", r, "ok")) =>
            /\ live[r] = CreatedRealm(r)
            /\ \A k \in RealmFields \ {"realm", "enabled"} :
                live[r][k] = ServerCreate([x \in {} |-> Absent])[k]

\* step 1 is over: kairos-dev, which the listing lacked, was created and
\* kairos-prod, which it held, was fetched and replaced without a create
C26_Witness ==
    /\ StepOneOver
    /\ "kairos-dev" \notin existing /\ "kairos-prod" \in existing
    /\ \E i \in Idx("create", "kairos-dev") : calls[i].status = "ok"
    /\ files["kairos-dev"] = FilePlain("kairos-dev")
    /\ ~CreateIssued("kairos-prod") /\ PutDone("kairos-prod")

----------------------------------------------------------------------------
(* Identities in the merged document *)

\* the ids of the members of a fetched collection
RemoteIds(members) == {m["id"] : m \in {x \in Range(members) : HasId(x)}}

\* C27 as stated. No identity fork: in each collection of the merged
\* document no natural key is on two members and no id of a fetched member
\* is on two members, whatever the desired collection lists.
C27_NoIdentityFork ==
    MergeDone =>
        \A coll \in Collections :
            \A i, j \in DOMAIN merged[coll] :
                LET m == merged[coll][i]
                    n == merged[coll][j]
                    kf == KeyField(coll)
                IN  i # j =>
                        /\ Truthy(Get(m, kf)) => Get(m, kf) # Get(n, kf)
                        /\ Get(m, "id") \in RemoteIds(current[coll]) =>
                            Get(m, "id") # Get(n, "id")

\* C28. The realm's own id is preserved: the merged document carries the
\* id of the fetched realm whenever that id is not empty, whatever id the
\* desired document declares; only without it the declared id, and without
\* that the name of the fetched realm (None if it has none).
C28_RealmIdPreserved ==
    MergeDone =>
        /\ Truthy(current["id"]) => merged["id"] = current["id"]
        /\ (~Truthy(current["id"]) /\ Truthy(desired["id"])) => merged["id"] = desired["id"]
        /\ (~Truthy(current["id"]) /\ ~Truthy(desired["id"])) =>
            merged["id"] = (IF current["realm"] = Absent THEN Null ELSE current["realm"])

\* a merge of a fetched realm with an id and a realm file that declares
\* another one
C28_Witness ==
    /\ MergeDone
    /\ current["id"] = "live-id" /\ desired["id"] = "file-id"
    /\ merged["id"] = "live-id"

----------------------------------------------------------------------------
(* Termination of a run *)

\* the realms each kind of call is issued on
Targets(op) ==
    CASE op = "token" -> {"master"}
      [] op = "list" -> {"*"}
      [] op \in UserOps -> {"kairos-dev", "kairos-qa"}
      [] OTHER -> {"kairos-dev", "kairos-qa", "kairos-prod"}

\* the newest call of the run is the only one of its kind on its realm; as
\* the log grows by one call at a time, no kind of call is then ever issued
\* twice on a realm within a run
NewestCallOnce ==
    calls # <<>> =>
        /\ LastCall.realm \in Targets(LastCall.op)
        /\ \A i \in 1..(Len(calls) - 1) :
            ~(calls[i].op = LastCall.op /\ calls[i].realm = LastCall.realm)

\* a run that returns 0 has passed the three steps for every realm
AllPhasesPassed ==
    /\ \A r \in Realms :
        /\ files[r] # NoFile => PutDone(r)
        /\ Idx("get_components", r) # {}
    /\ \A r \in {"kairos-dev", "kairos-qa"} : Idx("get_user", r) # {}

\* C29. Every run terminates after a bounded number of remote calls: no
\* kind of call is issued twice on a realm (so a run issues at most 26
\* calls), a run that returns 0 has passed all phases, and every run that
\* has started ends, in a return or in an abort.
C29_BoundedRun ==
    /\ [](NewestCallOnce /\ Len(calls) <= 26 /\ (pc = "done" => AllPhasesPassed))
    /\ (~Ended) ~> Ended

\* a run that reached the end with every kind of call the start allows: two
\* realms created, three replaced, three policy components and two users
C29_Witness ==
    /\ pc = "done"
    /\ Len(calls) = 25
    /\ \A r \in {"kairos-dev", "kairos-qa"} :
        \A op \in {"create", "get", "put", "get_id", "get_components", "put_component",
                   "get_user", "create_user", "set_password"} : Idx(op, r) # {}

----------------------------------------------------------------------------
(* ensure_keycloak_trusted_hosts.py *)

\* C30 as stated. Both checks disabled: when a run without --print-config
\* has returned 0 (and nothing else has written to the server since), a
\* trusted-hosts component that has an id holds ["false"] under
\* host-sending-registration-request-must-match and under
\* client-uris-must-match, whatever its config was before the run.
C30_BothChecksDisabled ==
    (pc = "returned_0" /\ ~args.print_config /\ ~outside) =>
        LET found == FirstTrusted(comps[args.realm], 1)
        IN  (found # NoDoc /\ Truthy(found.id)) =>
                /\ ConfigHas(ConfigOf(found), "host-sending-registration-request-must-match", <<"false">>)
                /\ ConfigHas(ConfigOf(found), "client-uris-must-match", <<"false">>)

----------------------------------------------------------------------------
(* ensure-keycloak-realms.py *)

\* C31 as stated. Create only if missing: no create is issued for a realm
\* the listing of the run holds, a create answered 409 does not end the
\* run (the loop moves on to the next realm), and the second of two runs, after a first one that returned 0 with
\* every call answered 2xx and no other actor at work, issues no create.
C31_CreateOnlyIfMissing ==
    /\ \A i \in DOMAIN calls : calls[i].op = "create" => calls[i].realm \notin existing
    /\ (calls # <<>> /\ LastCall.op = "create" /\ LastCall.status = "conflict") =>
        realm_idx > RealmPos(LastCall.realm)
    /\ (prev # NoRun /\ prev.outcome = "done" /\ ~prev.failed /\ ~prev.outside) =>
        \A i \in DOMAIN calls : calls[i].op # "create"

(* delete-keycloak-realms.py *)

\* the run has deleted, or found absent, every realm of REALMS_TO_DELETE
\* and nobody has brought one back
CleanDone == pc = "done" /\ ~outside

\* C32. Deleting tolerates absence and is idempotent: a delete answered
\* 404 makes the loop move on to the next realm, a delete answered with
\* any other error status ends the run, after a run that completed none of
\* the three realms exists, and in a run that follows a completed run no
\* delete finds a realm: when it completes, each of its deletes was
\* answered 404.
C32_DeleteIdempotent ==
    /\ (calls # <<>> /\ LastCall.op = "delete" /\ LastCall.status = "not_found") =>
        (pc # "aborted" /\ realm_idx > RealmPos(LastCall.realm))
    /\ (calls # <<>> /\ LastCall.op = "delete" /\ LastCall.status = "error") =>
        (pc = "aborted" /\ realm_idx = RealmPos(LastCall.realm))
    /\ CleanDone => \A r \in Realms : live[r] = NoDoc
    /\ (prev # NoRun /\ prev.outcome = "done" /\ ~prev.outside /\ ~outside) =>
        /\ \A i \in DOMAIN calls : calls[i].op = "delete" => calls[i].status # "ok"
        /\ pc = "done" =>
            \A r \in Realms : \E i \in Idx("delete", r) : calls[i].status = "not_found"

\* a first run found realms, deleted them and completed; the second run
\* has completed with its three deletes answered 404
C32_Witness ==
    /\ run = 2 /\ CleanDone
    /\ prev.outcome = "done" /\ ~prev.outside
    /\ prev.start.live["kairos-dev"] # NoDoc /\ prev.start.live["kairos-prod"] = NoDoc
    /\ \A r \in Realms : live[r] = NoDoc
    /\ \A r \in Realms : \E i \in Idx("delete", r) : calls[i].status = "not_found"

(* generate_dev_secrets.py *)

\* C33 as stated. After a generation run that passed its validation, .env.dev
\* holds for KEYCLOAK_ADMIN_PASSWORD, KEYCLOAK_DB_PASSWORD and
\* QDRANT_API_KEY the values .env holds.
C33_EnvFilesInSync ==
    pc = "done" =>
        \A k \in InfraKeys : EnvGet(files[ENV_DEV], k) = EnvGet(files[ENV], k)

====
